---- MODULE Spec2Model ----
(***************************************************************************)
(* Model of the GraphQL client layer of @skyltmax/remix-base:              *)
(*   - persisted.ts   createPersistedQueryFetch and its request processors *)
(*   - client.ts      createClient, createResponseMiddleware               *)
(*                                                                         *)
(* JSON texts and URL search strings are modelled structurally: an object  *)
(* or a URLSearchParams list is a sequence of <<key, value>> pairs in      *)
(* insertion order, a value is a record [t, s, n].                         *)
(***************************************************************************)
EXTENDS Integers, Sequences, FiniteSets, TLC

VARIABLES
    pc,                     \* position of the async function of createPersistedQueryFetch
    request,                \* { info, init } as passed by the caller
    requestWithQueryHash,   \* result of processor.addHash
    requestWithoutQuery,    \* result of processor.removeQuery
    calls,                  \* the calls made to fetchImpl, in order
    inflight,               \* indices of calls whose promise is still pending
    res,                    \* the first response
    body,                   \* the parsed JSON body of the first response
    result,                 \* what the returned promise settles to
    skipCookies,            \* createResponseMiddleware's third argument
    headersSent,            \* response.headersSent of the outbound response
    outServerTiming,        \* the outbound response's server-timing values, in order
    outCookies,             \* the response.cookie(...) calls on the outbound response, in order
    logged,                 \* the request.log lines of the latest relay invocation
    raised,                 \* what the latest relay invocation threw
    lastError,              \* the error object the latest relay invocation was given, as it left it
    givenError,             \* the error object the latest relay invocation was given, as it came
    givenResponse,          \* the non-error value the latest relay invocation was given
    relays,                 \* relay invocations so far
    now,                    \* Date.now()
    headers,                \* the Headers collection bound by createClient
    fetchCalls,             \* the calls createClient's fetch wrapper made to fetch, in order
    pending,                \* whether a send of the client awaits its response
    sends,                  \* client.request calls so far
    bound,                  \* whether createClient has built the client
    uri,                    \* the endpoint the client is bound to
    inbound,                \* the inbound request createRequest was given
    options,                \* the GraphQLClientOptions createRequest was given
    cache,                  \* the entries of the LRUCache of hashCache, least recently used first
    hashCalls,              \* the calls of hashCache so far, in order
    reqs,                   \* per inbound request: what requestMiddleware bound to it and its outbound response
    heap,                   \* the Headers collections createRequest has allocated
    middlewareOptions       \* the options requestMiddleware was given

pqVars == <<pc, request, requestWithQueryHash, requestWithoutQuery, calls, inflight, res, body, result>>

relayVars ==
    <<skipCookies, headersSent, outServerTiming, outCookies, logged, raised, lastError, givenError,
      givenResponse, relays>>

clientVars == <<now, headers, fetchCalls, pending, sends, bound, uri, inbound, options>>

hashVars == <<cache, hashCalls>>

serverVars == <<reqs, heap, middlewareOptions>>

vars == <<pqVars, relayVars, clientVars, hashVars, serverVars>>

----------------------------------------------------------------------------
(* Bounds of the model *)

MaxParams == 2      \* URL search parameters of an input URL
MaxFields == 2      \* fields of an input POST body object
MaxErrors == 2      \* entries of an `errors` array in a response body
MaxCookies == 2     \* cookie definitions in one upstream set-cookie header
MaxRelays == 2      \* invocations of one response middleware
MaxSends == 2       \* sends through one client
MaxClock == 3       \* readings of Date.now()
MaxHashCalls == 4   \* calls of hashCache
MaxRequests == 2    \* inbound requests the server handles
MaxInflight == 2    \* calls to fetch the server awaits at once
MaxServerSends == 3 \* sends of all inbound requests together
CacheMax == 2       \* entries the LRUCache holds (`max: 1000`)

----------------------------------------------------------------------------
(* JSON values *)

VERSION == 1

JStr(s) == [t |-> "string", s |-> s, n |-> 0]
JNum(n) == [t |-> "number", s |-> "", n |-> n]
JObj(s) == [t |-> "object", s |-> s, n |-> 0]       \* an opaque object, named s
JUndefined == [t |-> "undefined", s |-> "", n |-> 0]

\* { persistedQuery: { version: VERSION, sha256Hash: hash } }
persistedQueryExtension(hash) == [t |-> "persistedQuery", s |-> hash, n |-> VERSION]

\* JavaScript truthiness of a value read from a parameter list or an object
Truthy(v) ==
    CASE v.t = "undefined" -> FALSE
      [] v.t = "string"    -> v.s # ""
      [] v.t = "number"    -> v.n # 0
      [] OTHER             -> TRUE

----------------------------------------------------------------------------
(* Ordered key/value lists: URLSearchParams and parsed JSON objects *)

Keys(ps) == {ps[i][1] : i \in DOMAIN ps}

Has(ps, k) == k \in Keys(ps)

\* URLSearchParams.get / property read: the first value under k
Get(ps, k) ==
    IF Has(ps, k)
    THEN ps[CHOOSE i \in DOMAIN ps : ps[i][1] = k /\ \A j \in DOMAIN ps : ps[j][1] = k => i <= j][2]
    ELSE JUndefined

\* URLSearchParams.delete / rest destructuring: every pair under k is removed
Delete(ps, k) == SelectSeq(ps, LAMBDA p : p[1] # k)

\* URLSearchParams.append
Append2(ps, k, v) == Append(ps, <<k, v>>)

\* { ...obj, k: v }: an existing key keeps its position, a new key goes last
Spread(ps, k, v) ==
    IF Has(ps, k)
    THEN [i \in DOMAIN ps |-> IF ps[i][1] = k THEN <<k, v>> ELSE ps[i]]
    ELSE Append(ps, <<k, v>>)

----------------------------------------------------------------------------
(* sha256 and the hash cache *)

Queries == {"", "q1", "q2"}

\* crypto.subtle.digest("SHA-256", ...) in hex: deterministic and, on the
\* query texts of the model, injective
sha256(message) ==
    CASE message = ""   -> "e3b0c442"
      [] message = "q1" -> "sha256-of-q1"
      [] message = "q2" -> "sha256-of-q2"
      [] OTHER          -> "sha256-of-other"

hashCache(query) == sha256(query)

\* LRUCache.get: the value under the key, or undefined
cacheGet(c, key) ==
    IF \E i \in DOMAIN c : c[i][1] = key
    THEN c[CHOOSE i \in DOMAIN c : c[i][1] = key][2]
    ELSE "undefined"

\* what LRUCache.get leaves: the entry read is the most recently used
cacheUsed(c, key) ==
    SelectSeq(c, LAMBDA e : e[1] # key) \o SelectSeq(c, LAMBDA e : e[1] = key)

\* mutant: nothing is evicted
cacheSet_KeepsAll(c, key, value) ==
    Append(SelectSeq(c, LAMBDA e : e[1] # key), <<key, value>>)

\* what LRUCache.set leaves: the entry is the most recently used, and the
\* least recently used one is evicted when the cache holds more than `max`
cacheSet(c, key, value) ==
    LET set == Append(SelectSeq(c, LAMBDA e : e[1] # key), <<key, value>>)
    IN  IF Len(set) > CacheMax THEN Tail(set) ELSE set

\* one call of hashCache: its argument, where it stands, whether it was
\* answered from the cache, and what it returned
HashCall(query, at, cached, hash) == [query |-> query, at |-> at, cached |-> cached, hash |-> hash]

\* the cache of a module no call has reached
HashFresh ==
    /\ cache = <<>>
    /\ hashCalls = <<>>

\* hashCache(query) up to `return cached` or `await sha256(query)`
HashCache(query) ==
    /\ Len(hashCalls) < MaxHashCalls
    /\ LET cached == cacheGet(cache, query)
       IN  /\ cache' = cacheUsed(cache, query)
           /\ hashCalls' = Append(hashCalls,
                                  IF cached # "undefined"
                                  THEN HashCall(query, "returned", TRUE, cached)
                                  ELSE HashCall(query, "sha256", FALSE, "undefined"))
    /\ UNCHANGED <<pqVars, relayVars, clientVars, serverVars>>

\* hashCache from the settling of `await sha256(query)` to `return hash`
HashCacheResumes(i) ==
    /\ i \in DOMAIN hashCalls
    /\ hashCalls[i].at = "sha256"
    /\ LET hash == sha256(hashCalls[i].query)
       IN  /\ cache' = cacheSet(cache, hashCalls[i].query, hash)
           /\ hashCalls' = [hashCalls EXCEPT ![i] = HashCall(hashCalls[i].query, "returned", FALSE, hash)]
    /\ UNCHANGED <<pqVars, relayVars, clientVars, serverVars>>

----------------------------------------------------------------------------
(* Requests: { info, init } *)

\* a URL text: the part before the first "?", whether a "?" is present, and
\* the search parameters after it
Url(base, q, params) == [base |-> base, q |-> q, params |-> params]

NoBody == [kind |-> "undefined", doc |-> [t |-> "none", fields |-> <<>>]]

NoRequest ==
    [info |-> [kind |-> "none", url |-> Url("", FALSE, <<>>)], method |-> "undefined", body |-> NoBody]

Thrown(msg) == [ok |-> FALSE, error |-> msg, request |-> NoRequest]
Returned(r) == [ok |-> TRUE, error |-> "", request |-> r]

\* String.prototype.toUpperCase on the method names of the model
toUpperCase(m) ==
    CASE m = "get"  -> "GET"
      [] m = "post" -> "POST"
      [] m = "put"  -> "PUT"
      [] OTHER      -> m

getRequestInfoUrl(info) == info.url

requestInfoWithUpdatedUrl(info, url) ==
    IF info.kind = "URL"
    THEN [kind |-> "string", url |-> url]
    ELSE [kind |-> info.kind, url |-> url]

splitUrlAndSearchParams(url) ==
    IF ~url.q THEN <<url.base, <<>>>> ELSE <<url.base, url.params>>

isGraphQLRequest(req) == req.t \in {"object", "array"}

\* requestProcessorByMethod.GET.addHash
GET_addHash(r) ==
    LET split  == splitUrlAndSearchParams(getRequestInfoUrl(r.info))
        params == split[2]
        query  == Get(params, "query")
    IN  IF ~Truthy(query)
        THEN Thrown("GET request must contain a query parameter")
        ELSE Returned([r EXCEPT !.info = requestInfoWithUpdatedUrl(r.info,
                 Url(split[1], TRUE,
                     Append2(params, "extensions", persistedQueryExtension(hashCache(query.s)))))])

\* requestProcessorByMethod.GET.removeQuery
GET_removeQuery(r) ==
    LET split == splitUrlAndSearchParams(getRequestInfoUrl(r.info))
    IN  Returned([r EXCEPT !.info = requestInfoWithUpdatedUrl(r.info,
             Url(split[1], TRUE, Delete(split[2], "query")))])

\* mutant: the body is rebuilt from the query and the hash alone
POST_addHash_DropsFields(r) ==
    IF r.body.kind # "string"
    THEN Thrown("POST request must contain a body")
    ELSE IF r.body.doc.t = "invalid"
    THEN Thrown("SyntaxError")
    ELSE IF ~isGraphQLRequest(r.body.doc)
    THEN Thrown("POST request body must be a GraphQL request")
    ELSE IF Get(r.body.doc.fields, "query").t # "string"
    THEN Thrown("POST request body must contain a query")
    ELSE Returned([r EXCEPT !.body.doc.fields =
             <<<<"query", Get(r.body.doc.fields, "query")>>,
               <<"extensions", persistedQueryExtension(hashCache(Get(r.body.doc.fields, "query").s))>>>>])

\* requestProcessorByMethod.POST.addHash
POST_addHash(r) ==
    IF r.body.kind # "string"
    THEN Thrown("POST request must contain a body")
    ELSE IF r.body.doc.t = "invalid"
    THEN Thrown("SyntaxError")
    ELSE IF ~isGraphQLRequest(r.body.doc)
    THEN Thrown("POST request body must be a GraphQL request")
    ELSE IF Get(r.body.doc.fields, "query").t # "string"
    THEN Thrown("POST request body must contain a query")
    ELSE Returned([r EXCEPT !.body.doc.fields =
             Spread(r.body.doc.fields, "extensions",
                    persistedQueryExtension(hashCache(Get(r.body.doc.fields, "query").s)))])

\* requestProcessorByMethod.POST.removeQuery
POST_removeQuery(r) ==
    IF r.body.kind # "string"
    THEN Thrown("POST request must contain a body")
    ELSE IF r.body.doc.t = "invalid"
    THEN Thrown("SyntaxError")
    ELSE IF ~isGraphQLRequest(r.body.doc)
    THEN Thrown("POST request body must be a GraphQL request")
    ELSE Returned([r EXCEPT !.body.doc.fields = Delete(r.body.doc.fields, "query")])

\* the keys of requestProcessorByMethod
requestProcessorByMethod == {"GET", "POST"}

\* mutant: an unknown method falls back to the GET processor
getRequestProcessor_DefaultsToGet(r) ==
    LET method == toUpperCase(IF r.method = "undefined" THEN "GET" ELSE r.method)
    IN  IF method \notin {"GET", "POST"}
        THEN [ok |-> TRUE, error |-> "", method |-> "GET"]
        ELSE [ok |-> TRUE, error |-> "", method |-> method]

\* getRequestProcessor: the processor's key, or the error thrown
getRequestProcessor(r) ==
    LET method == toUpperCase(IF r.method = "undefined" THEN "GET" ELSE r.method)
    IN  IF method \notin requestProcessorByMethod
        THEN [ok |-> FALSE, error |-> "Unsupported request method", method |-> method]
        ELSE [ok |-> TRUE, error |-> "", method |-> method]

addHash(method, r) == IF method = "GET" THEN GET_addHash(r) ELSE POST_addHash(r)
removeQuery(method, r) == IF method = "GET" THEN GET_removeQuery(r) ELSE POST_removeQuery(r)

----------------------------------------------------------------------------
(* Responses *)

Entry(m, c) == [message |-> m, code |-> c]

NoErrors == [t |-> "absent", list |-> <<>>]

RespBody(t, errors) == [t |-> t, errors |-> errors]

NoResponse ==
    [id |-> 0 - 1, status |-> 0, statusText |-> "", headers |-> "", body |-> RespBody("none", NoErrors)]

\* Response.ok
Ok(r) == r.status >= 200 /\ r.status <= 299

isGraphQLResponse(resBody) ==
    /\ resBody.t \in {"object", "array"}
    /\ resBody.errors.t \in {"array", "absent"}

\* mutant: only the first entry of the errors array is looked at
isPersistedQueryNotFoundError_FirstOnly(resBody) ==
    /\ resBody.t \in {"object", "array"}
    /\ resBody.errors.t = "array"
    /\ Len(resBody.errors.list) > 0
    /\ \/ resBody.errors.list[1].message = "PersistedQueryNotFound"
       \/ resBody.errors.list[1].code = "PERSISTED_QUERY_NOT_FOUND"

isPersistedQueryNotFoundError(resBody) ==
    /\ isGraphQLResponse(resBody)
    /\ resBody.errors.t = "array"
    /\ Len(resBody.errors.list) > 0
    /\ \E i \in DOMAIN resBody.errors.list :
          \/ resBody.errors.list[i].message = "PersistedQueryNotFound"
          \/ resBody.errors.list[i].code = "PERSISTED_QUERY_NOT_FOUND"

----------------------------------------------------------------------------
(* Inputs of the model *)

SeqsUpTo(S, n) == UNION {[1..k -> S] : k \in 0..n}

UniqueKeys(ps) == \A i, j \in DOMAIN ps : ps[i][1] = ps[j][1] => i = j

\* URL search parameters a caller may pass; a key may repeat
UrlPairs ==
    {<<"query", JStr(q)>> : q \in Queries} \cup {<<"operationName", JStr("Op")>>}

InputUrls ==
    {Url("http://api/graphql", FALSE, <<>>)}
        \cup {Url("http://api/graphql", TRUE, ps) : ps \in SeqsUpTo(UrlPairs, MaxParams)}

InfoKinds == {"string", "URL", "Request"}

\* fields of a JSON object a caller may post; object keys are unique
BodyPairs ==
    {<<"query", JStr(q)>> : q \in Queries}
        \cup {<<"query", JNum(7)>>, <<"variables", JObj("vars")>>, <<"extensions", JObj("ext")>>}

InputDocs ==
    {[t |-> t, fields |-> <<>>] : t \in {"invalid", "null", "number", "array"}}
        \cup {[t |-> "object", fields |-> fs] :
                 fs \in {ps \in SeqsUpTo(BodyPairs, MaxFields) : UniqueKeys(ps)}}

InputBodies ==
    {NoBody, [kind |-> "FormData", doc |-> [t |-> "none", fields |-> <<>>]]}
        \cup {[kind |-> "string", doc |-> d] : d \in InputDocs}

\* GET sends carry no body, POST and PUT sends go to the bare endpoint; the
\* spellings of the method are tried on one URL each
InputRequests ==
    {[info |-> [kind |-> k, url |-> u], method |-> "GET", body |-> NoBody] :
        k \in InfoKinds, u \in InputUrls}
    \cup
    {[info |-> [kind |-> "string", url |-> Url("http://api/graphql", TRUE, <<<<"query", JStr("q1")>>>>)],
      method |-> m, body |-> NoBody] : m \in {"undefined", "get", "PUT", "put", ""}}
    \cup
    {[info |-> [kind |-> "string", url |-> Url("http://api/graphql", FALSE, <<>>)],
      method |-> "POST", body |-> b] : b \in InputBodies}
    \cup
    {[info |-> [kind |-> "string", url |-> Url("http://api/graphql", FALSE, <<>>)],
      method |-> m, body |-> [kind |-> "string", doc |-> [t |-> "object", fields |-> <<<<"query", JStr("q1")>>>>]]] :
        m \in {"post", "PUT"}}

ErrorEntries ==
    {Entry("undefined", "undefined"),
     Entry("PersistedQueryNotFound", "undefined"),
     Entry("persistedquerynotfound", "undefined"),
     Entry("undefined", "PERSISTED_QUERY_NOT_FOUND"),
     Entry("Internal error", "INTERNAL_SERVER_ERROR")}

\* bodies the upstream may answer with; "notjson" is a text json() rejects
RespBodies ==
    {RespBody(t, NoErrors) : t \in {"notjson", "null", "number", "array", "object"}}
        \cup {RespBody("object", [t |-> "other", list |-> <<>>])}
        \cup {RespBody("object", [t |-> "array", list |-> es]) : es \in SeqsUpTo(ErrorEntries, MaxErrors)}

FewRespBodies ==
    {RespBody("notjson", NoErrors), RespBody("object", NoErrors),
     RespBody("object", [t |-> "array", list |-> <<Entry("PersistedQueryNotFound", "undefined")>>])}

StatusText(status) ==
    CASE status = 200 -> "OK"
      [] status = 201 -> "Created"
      [] status = 404 -> "Not Found"
      [] OTHER        -> "Internal Server Error"

UpstreamResponse(id, status, b) ==
    [id |-> id, status |-> status, statusText |-> StatusText(status), headers |-> "upstream", body |-> b]

\* what the upstream may answer to the first call
FirstResponses ==
    {UpstreamResponse(1, 200, b) : b \in RespBodies}
        \cup {UpstreamResponse(1, st, b) : st \in {201, 404, 500}, b \in FewRespBodies}

\* what the upstream may answer to the second call
SecondResponses ==
    {UpstreamResponse(2, 200, RespBody("object", NoErrors)),
     UpstreamResponse(2, 200, RespBody("object", [t |-> "array", list |-> <<Entry("PersistedQueryNotFound", "undefined")>>])),
     UpstreamResponse(2, 500, RespBody("notjson", NoErrors))}

----------------------------------------------------------------------------
(* Error objects, log lines and raises of the response middleware *)

Maybe(def, v) == [def |-> def, v |-> v]

NoVariables == [def |-> FALSE, id |-> "undefined", password |-> "undefined"]

\* the headers of an upstream response that carries none the middleware reads
NoUpstreamHeaders ==
    [requestId |-> "undefined", requestAt |-> Maybe(FALSE, 0), serverTiming |-> "undefined", setCookie |-> <<>>]

\* an Error-like object: class, message and stack (each marked with whether
\* its text holds the plaintext password), the request variables it carries,
\* the upstream status, the GraphQL errors of the upstream body and the
\* headers of the upstream response
ErrorObject(class, text, secret, hasStack, variables, status, errors) ==
    [class |-> class,
     message |-> [text |-> text, secret |-> secret],
     stack |-> [def |-> hasStack, secret |-> hasStack /\ secret],
     variables |-> variables,
     status |-> status,
     errors |-> errors,
     headers |-> NoUpstreamHeaders]

NoError == ErrorObject("none", "", FALSE, FALSE, NoVariables, 0, Maybe(FALSE, <<>>))

NotRaised == [kind |-> "none", status |-> 0, text |-> "", secret |-> FALSE, error |-> NoError]

\* mutant: every failure is raised as a 500
RaisedResponse_Always500(text, secret, status) ==
    [kind |-> "Response", status |-> 500, text |-> text, secret |-> secret, error |-> NoError]

\* new Response(text, { status })
RaisedResponse(text, secret, status) ==
    [kind |-> "Response", status |-> status, text |-> text, secret |-> secret, error |-> NoError]

\* mutant: the error is translated into an HTTP failure
Rethrown_AsResponse(err) ==
    [kind |-> "Response", status |-> 500, text |-> err.message.text, secret |-> FALSE, error |-> NoError]

\* throw err
Rethrown(err) == [kind |-> "rethrow", status |-> 0, text |-> "", secret |-> FALSE, error |-> err]

\* no non-error value: the invocation was given an error, or there was none
NoGqlResponse ==
    [status |-> 0, operationName |-> "undefined",
     headers |-> [requestId |-> "undefined", requestAt |-> Maybe(FALSE, 0), serverTiming |-> "undefined",
                  setCookie |-> <<>>]]

\* the structured fields of the "API request ... returned" line
LogFields(gqlReqId, gqlOperation, gqlStatus, gqlDuration) ==
    [gqlReqId |-> gqlReqId, gqlOperation |-> gqlOperation, gqlStatus |-> gqlStatus, gqlDuration |-> gqlDuration]

NoFields == LogFields("undefined", "undefined", 0, 0)

\* request.log.<level>(payload or fields, text)
LogLine(level, text, payload, fields) ==
    [level |-> level, text |-> text, payload |-> payload, fields |-> fields]

\* the outbound response and the logger before the first relay invocation
RelayFresh ==
    /\ skipCookies = FALSE
    /\ headersSent = FALSE
    /\ outServerTiming = <<>>
    /\ outCookies = <<>>
    /\ logged = <<>>
    /\ raised = NotRaised
    /\ lastError = NoError
    /\ givenError = NoError
    /\ givenResponse = NoGqlResponse
    /\ relays = 0

\* an express.Request as createRequest reads it: headers, hostname, protocol
InboundRequest(hdrs, hostname, protocol) == [headers |-> hdrs, hostname |-> hostname, protocol |-> protocol]

NoInbound == InboundRequest(<<>>, "", "")

\* GraphQLClientOptions; "undefined" is a field left out
GraphQLClientOptions(endpoint, sharedSecret, sharedSecretHeader, passthroughHeaders, includeDefaultPassthroughHeaders) ==
    [endpoint |-> endpoint, sharedSecret |-> sharedSecret, sharedSecretHeader |-> sharedSecretHeader,
     passthroughHeaders |-> passthroughHeaders,
     includeDefaultPassthroughHeaders |-> includeDefaultPassthroughHeaders]

\* `options ?? {}` of a call without options
NoOptions == GraphQLClientOptions("undefined", "undefined", "undefined", Maybe(FALSE, <<>>), "undefined")

\* RequestMiddlewareOptions: GraphQLClientOptions and skipCookies
RequestMiddlewareOptions(skip, opts) ==
    [skipCookies |-> skip, endpoint |-> opts.endpoint, sharedSecret |-> opts.sharedSecret,
     sharedSecretHeader |-> opts.sharedSecretHeader, passthroughHeaders |-> opts.passthroughHeaders,
     includeDefaultPassthroughHeaders |-> opts.includeDefaultPassthroughHeaders]

\* a server no inbound request has reached
ServerFresh ==
    /\ reqs = <<>>
    /\ heap = <<>>
    /\ middlewareOptions = RequestMiddlewareOptions("undefined", NoOptions)

\* a Headers collection nobody has bound yet
ClientFresh ==
    /\ now = 0
    /\ headers = <<>>
    /\ fetchCalls = <<>>
    /\ pending = FALSE
    /\ sends = 0
    /\ bound = FALSE
    /\ uri = ""
    /\ inbound = NoInbound
    /\ options = NoOptions

----------------------------------------------------------------------------
(* createPersistedQueryFetch(fetchImpl)(info, init) *)

Pending == [kind |-> "pending", response |-> NoResponse, error |-> ""]
Resolved(r) == [kind |-> "response", response |-> r, error |-> ""]
Rejected(e) == [kind |-> "error", response |-> NoResponse, error |-> e]

\* mutant: the body is re-wrapped without the init of the first response
NewResponse_DefaultInit(b, init) ==
    [id |-> 0, status |-> 200, statusText |-> "", headers |-> "", body |-> b]

\* new Response(JSON.stringify(body), { status, statusText, headers })
NewResponse(b, init) ==
    [id |-> 0, status |-> init.status, statusText |-> init.statusText, headers |-> init.headers, body |-> b]

\* whether the with-hash request is sent after the body of the first response was read
SendsWithHash(b) == isPersistedQueryNotFoundError(b)

\* mutant: the body of every first response is read
ReturnsAsIs_Never(r) == FALSE

\* whether the first response is handed back without reading its body
ReturnsAsIs(r) == ~Ok(r)

\* mutant: the first call carries the query
FirstCalls_WithQuery(withHash, withoutQuery) == <<withHash>>

\* mutant: both requests are issued at once
FirstCalls_Both(withHash, withoutQuery) == <<withoutQuery, withHash>>

\* the requests handed to fetchImpl before the first await on a response
FirstCalls(withHash, withoutQuery) == <<withoutQuery>>

PQInit ==
    /\ pc = "start"
    /\ request = NoRequest
    /\ requestWithQueryHash = NoRequest
    /\ requestWithoutQuery = NoRequest
    /\ calls = <<>>
    /\ inflight = {}
    /\ res = NoResponse
    /\ body = RespBody("none", NoErrors)
    /\ result = Pending

\* the call up to `await fetchImpl(requestWithoutQuery...)`
PersistedFetch(r) ==
    /\ pc = "start"
    /\ request' = r
    /\ LET processor == getRequestProcessor(r)
           withHash  == addHash(processor.method, r)
           without   == removeQuery(processor.method, withHash.request)
       IN  IF ~processor.ok
           THEN /\ result' = Rejected(processor.error)
                /\ pc' = "rejected"
                /\ UNCHANGED <<requestWithQueryHash, requestWithoutQuery, calls, inflight>>
           ELSE IF ~withHash.ok
           THEN /\ result' = Rejected(withHash.error)
                /\ pc' = "rejected"
                /\ UNCHANGED <<requestWithQueryHash, requestWithoutQuery, calls, inflight>>
           ELSE IF ~without.ok
           THEN /\ result' = Rejected(without.error)
                /\ pc' = "rejected"
                /\ requestWithQueryHash' = withHash.request
                /\ UNCHANGED <<requestWithoutQuery, calls, inflight>>
           ELSE /\ requestWithQueryHash' = withHash.request
                /\ requestWithoutQuery' = without.request
                /\ calls' = calls \o FirstCalls(withHash.request, without.request)
                /\ inflight' = inflight \cup DOMAIN calls'
                /\ pc' = "fetch1"
                /\ UNCHANGED result
    /\ UNCHANGED <<res, body>>
    /\ UNCHANGED <<relayVars, clientVars, hashVars, serverVars>>

\* the first fetchImpl promise resolves: `if (!res.ok) return res`, else res.clone().json()
FirstFetchResolves(r) ==
    /\ pc = "fetch1"
    /\ res' = r
    /\ inflight' = inflight \ {1}
    /\ IF ReturnsAsIs(r)
       THEN /\ result' = Resolved(r)
            /\ pc' = "resolved"
       ELSE /\ pc' = "json1"
            /\ UNCHANGED result
    /\ UNCHANGED <<request, requestWithQueryHash, requestWithoutQuery, calls, body>>
    /\ UNCHANGED <<relayVars, clientVars, hashVars, serverVars>>

\* the first fetchImpl promise rejects (network failure)
FirstFetchRejects ==
    /\ pc = "fetch1"
    /\ inflight' = inflight \ {1}
    /\ result' = Rejected("TypeError: fetch failed")
    /\ pc' = "rejected"
    /\ UNCHANGED <<request, requestWithQueryHash, requestWithoutQuery, calls, res, body>>
    /\ UNCHANGED <<relayVars, clientVars, hashVars, serverVars>>

\* mutant: a body that cannot be parsed makes the first response be returned
BodyReadRejects_ReturnsFirst ==
    /\ pc = "json1"
    /\ res.body.t = "notjson"
    /\ result' = Resolved(res)
    /\ pc' = "resolved"
    /\ UNCHANGED <<request, requestWithQueryHash, requestWithoutQuery, calls, inflight, res, body>>
    /\ UNCHANGED <<relayVars, clientVars, hashVars, serverVars>>

\* res.clone().json() rejects: the body is no JSON text
BodyReadRejects ==
    /\ pc = "json1"
    /\ res.body.t = "notjson"
    /\ result' = Rejected("SyntaxError")
    /\ pc' = "rejected"
    /\ UNCHANGED <<request, requestWithQueryHash, requestWithoutQuery, calls, inflight, res, body>>
    /\ UNCHANGED <<relayVars, clientVars, hashVars, serverVars>>

\* res.clone().json() resolves: fall back to the with-hash request, or re-wrap the body
BodyReadResolves ==
    /\ pc = "json1"
    /\ res.body.t # "notjson"
    /\ body' = res.body
    /\ IF SendsWithHash(res.body)
       THEN /\ calls' = Append(calls, requestWithQueryHash)
            /\ inflight' = inflight \cup {Len(calls) + 1}
            /\ pc' = "fetch2"
            /\ UNCHANGED result
       ELSE /\ result' = Resolved(NewResponse(res.body, res))
            /\ pc' = "resolved"
            /\ UNCHANGED <<calls, inflight>>
    /\ UNCHANGED <<request, requestWithQueryHash, requestWithoutQuery, res>>
    /\ UNCHANGED <<relayVars, clientVars, hashVars, serverVars>>

\* mutant: the fallback is sent again while the upstream keeps signalling not-found
SecondFetchResolves_Retries(r) ==
    /\ pc = "fetch2"
    /\ IF isPersistedQueryNotFoundError(r.body)
       THEN /\ calls' = Append(calls, requestWithQueryHash)
            /\ inflight' = {Len(calls) + 1}
            /\ UNCHANGED <<pc, result>>
       ELSE /\ inflight' = inflight \ {2}
            /\ result' = Resolved(r)
            /\ pc' = "resolved"
            /\ UNCHANGED calls
    /\ UNCHANGED <<request, requestWithQueryHash, requestWithoutQuery, res, body>>
    /\ UNCHANGED <<relayVars, clientVars, hashVars, serverVars>>

\* the second fetchImpl promise settles the returned promise
SecondFetchResolves(r) ==
    /\ pc = "fetch2"
    /\ inflight' = inflight \ {2}
    /\ result' = Resolved(r)
    /\ pc' = "resolved"
    /\ UNCHANGED <<request, requestWithQueryHash, requestWithoutQuery, calls, res, body>>
    /\ UNCHANGED <<relayVars, clientVars, hashVars, serverVars>>

\* mutant: a failed with-hash call starts the protocol over
SecondFetchRejects_StartsOver ==
    /\ pc = "fetch2"
    /\ calls' = <<requestWithoutQuery>>
    /\ inflight' = {1}
    /\ pc' = "fetch1"
    /\ UNCHANGED <<request, requestWithQueryHash, requestWithoutQuery, res, body, result>>
    /\ UNCHANGED <<relayVars, clientVars, hashVars, serverVars>>

\* the second fetchImpl promise rejects (network failure)
SecondFetchRejects ==
    /\ pc = "fetch2"
    /\ inflight' = inflight \ {2}
    /\ result' = Rejected("TypeError: fetch failed")
    /\ pc' = "rejected"
    /\ UNCHANGED <<request, requestWithQueryHash, requestWithoutQuery, calls, res, body>>
    /\ UNCHANGED <<relayVars, clientVars, hashVars, serverVars>>

PQNext ==
    \/ \E r \in InputRequests : PersistedFetch(r)
    \/ \E r \in FirstResponses : FirstFetchResolves(r)
    \/ FirstFetchRejects
    \/ BodyReadRejects
    \/ BodyReadResolves
    \/ \E r \in SecondResponses : SecondFetchResolves(r)
    \/ SecondFetchRejects

InitPersisted == PQInit /\ RelayFresh /\ ClientFresh /\ HashFresh /\ ServerFresh

SpecPersisted == InitPersisted /\ [][PQNext]_vars

\* every promise the send awaits settles: the first fetchImpl call, the
\* body read, the second fetchImpl call
FirstFetchSettles == (\E r \in FirstResponses : FirstFetchResolves(r)) \/ FirstFetchRejects
BodyReadSettles == BodyReadResolves \/ BodyReadRejects
SecondFetchSettles == (\E r \in SecondResponses : SecondFetchResolves(r)) \/ SecondFetchRejects

SpecPersistedFair ==
    /\ SpecPersisted
    /\ WF_vars(FirstFetchSettles)
    /\ WF_vars(BodyReadSettles)
    /\ WF_vars(SecondFetchSettles)

----------------------------------------------------------------------------
(* Claims about createPersistedQueryFetch *)

\* what the claims mean by "the upstream signals PersistedQueryNotFound":
\* an ok response whose JSON body has an errors array with a matching entry
SignalsNotFound(r) ==
    /\ r.status >= 200 /\ r.status <= 299
    /\ r.body.t = "object"
    /\ r.body.errors.t = "array"
    /\ \E i \in DOMAIN r.body.errors.list :
          \/ r.body.errors.list[i].message = "PersistedQueryNotFound"
          \/ r.body.errors.list[i].code = "PERSISTED_QUERY_NOT_FOUND"

\* the first response has arrived and its inspection is over
FirstInspected == res.id = 1 /\ pc \notin {"start", "fetch1", "json1"}

IsGetSend == request.info.kind # "none" /\ request.method \in {"undefined", "GET", "get"}

IsPostSend == request.info.kind # "none" /\ request.method \in {"POST", "post"}

QueryParams(r) == SelectSeq(r.info.url.params, LAMBDA p : p[1] = "query")

HasNonEmptyQueryParam(r) ==
    /\ r.info.url.q
    /\ \E i \in DOMAIN r.info.url.params :
          r.info.url.params[i][1] = "query" /\ r.info.url.params[i][2].s # ""

\* C1: for a GET send whose URL carries a non-empty `query` parameter, the
\* first call's URL has no `query` parameter and has an `extensions`
\* parameter; once the upstream has signalled PersistedQueryNotFound on the
\* first response, exactly one more call has been made and its URL carries
\* the original `query` parameter(s).
C1_GetHashFirstThenQuery ==
    (IsGetSend /\ HasNonEmptyQueryParam(request)) =>
        /\ Len(calls) <= 2
        /\ Len(calls) >= 1 =>
              /\ calls[1].info.url.q
              /\ ~Has(calls[1].info.url.params, "query")
              /\ Has(calls[1].info.url.params, "extensions")
        /\ (FirstInspected /\ SignalsNotFound(res)) =>
              /\ Len(calls) = 2
              /\ QueryParams(calls[2]) = QueryParams(request)
              /\ Truthy(Get(calls[2].info.url.params, "query"))

C1_Witness ==
    /\ IsGetSend /\ HasNonEmptyQueryParam(request)
    /\ Len(request.info.url.params) = 2
    /\ SignalsNotFound(res)
    /\ Len(calls) = 2
    /\ pc = "resolved"

\* C2: a second call is made if and only if the first response is ok and
\* its JSON body has an errors array with an entry whose message is exactly
\* "PersistedQueryNotFound" or whose extensions.code is exactly
\* "PERSISTED_QUERY_NOT_FOUND"; with no errors field, an empty errors array
\* or only other errors, exactly one call is made and the body read is what
\* the caller gets.
C2_SecondCallIffNotFound ==
    /\ Len(calls) >= 2 => (res.id = 1 /\ SignalsNotFound(res))
    /\ (FirstInspected /\ SignalsNotFound(res)) => Len(calls) = 2
    /\ (/\ FirstInspected
        /\ res.status >= 200 /\ res.status <= 299
        /\ res.body.t = "object"
        /\ res.body.errors.t \in {"absent", "array"}
        /\ ~SignalsNotFound(res)) =>
            /\ Len(calls) = 1
            /\ pc = "resolved"
            /\ result.kind = "response"
            /\ result.response.body = res.body

C2_Witness ==
    /\ pc = "resolved"
    /\ Len(calls) = 1
    /\ res.body.errors.t = "array"
    /\ Len(res.body.errors.list) = 2
    /\ res.body.errors.list[1].message = "persistedquerynotfound"
    /\ res.body.errors.list[2].code = "INTERNAL_SERVER_ERROR"
    /\ result.response.body = res.body

ValidPostBody(r) ==
    /\ r.body.kind = "string"
    /\ r.body.doc.t = "object"
    /\ Get(r.body.doc.fields, "query").t = "string"

\* C3: for a POST send whose body is a JSON object with a string `query`,
\* the first call's body has no `query`, carries extensions.persistedQuery =
\* {version: 1, sha256Hash: hash(query)} and keeps every other original
\* field with its value; the second call, when made, is the with-hash
\* request and its body's `query` is the original query.
C3_PostBodies ==
    (IsPostSend /\ ValidPostBody(request) /\ Len(calls) >= 1) =>
        LET orig  == request.body.doc.fields
            first == calls[1].body.doc.fields
            q     == Get(orig, "query")
        IN  /\ calls[1].body.kind = "string"
            /\ ~Has(first, "query")
            /\ Get(first, "extensions") = [t |-> "persistedQuery", s |-> sha256(q.s), n |-> 1]
            /\ Keys(first) = (Keys(orig) \ {"query"}) \cup {"extensions"}
            /\ \A k \in Keys(orig) \ {"query", "extensions"} : Get(first, k) = Get(orig, k)
            /\ UniqueKeys(first)
            /\ Has(requestWithQueryHash.body.doc.fields, "query")
            /\ Len(calls) = 2 =>
                  /\ calls[2] = requestWithQueryHash
                  /\ Get(calls[2].body.doc.fields, "query") = q
                  /\ Get(calls[2].body.doc.fields, "extensions") = Get(first, "extensions")
                  /\ \A k \in Keys(orig) \ {"extensions"} :
                        Get(calls[2].body.doc.fields, k) = Get(orig, k)

C3_Witness ==
    /\ IsPostSend /\ ValidPostBody(request)
    /\ Has(request.body.doc.fields, "variables")
    /\ Len(calls) = 2
    /\ Get(calls[1].body.doc.fields, "variables") = JObj("vars")
    /\ Get(calls[2].body.doc.fields, "query") = JStr("q2")

\* C4: if the first response is not ok, that very response is returned and
\* no second call is made, whatever its body holds.
C4_NotOkReturnedAsIs ==
    (res.id = 1 /\ ~(res.status >= 200 /\ res.status <= 299)) =>
        /\ pc = "resolved"
        /\ result = Resolved(res)
        /\ result.response.id = 1
        /\ Len(calls) = 1
        /\ inflight = {}

C4_Witness ==
    /\ res.id = 1
    /\ res.status = 500
    /\ res.body.errors.t = "array"
    /\ res.body.errors.list[1].message = "PersistedQueryNotFound"
    /\ pc = "resolved"
    /\ result.response = res

\* C5: one send makes at most two calls; the with-hash request is sent at
\* most once and its response is what the caller gets, as it is, also when
\* that response is not ok or signals PersistedQueryNotFound again.
C5_AtMostTwoCalls ==
    /\ Len(calls) <= 2
    /\ Len(calls) = 2 =>
          /\ calls[2] = requestWithQueryHash
          /\ calls[1] = requestWithoutQuery
          /\ pc \in {"fetch2", "resolved", "rejected"}
          /\ pc = "resolved" => (result.kind = "response" /\ result.response.id = 2)
          /\ pc = "rejected" => result.kind = "error"
          /\ pc = "fetch2" => result = Pending

C5_Witness ==
    /\ Len(calls) = 2
    /\ pc = "resolved"
    /\ result.response.id = 2
    /\ SignalsNotFound(result.response)

\* C6: the with-hash request is issued only after the first request has
\* completed and its body has been parsed; the two requests of a send are
\* never pending together, and a first request that fails is the last one.
C6_NeverConcurrent ==
    /\ Cardinality(inflight) <= 1
    /\ inflight \subseteq DOMAIN calls
    /\ Len(calls) = 2 =>
          /\ 1 \notin inflight
          /\ res.id = 1
          /\ body = res.body
          /\ body.t \notin {"none", "notjson"}
    /\ (pc = "rejected" /\ res.id # 1) => Len(calls) <= 1

C6_Witness ==
    /\ pc = "fetch2"
    /\ inflight = {2}
    /\ body = res.body
    /\ res.id = 1

\* the violations C7 lists
ProtocolViolation(r) ==
    \/ r.method \notin {"undefined", "GET", "get", "POST", "post"}
    \/ /\ r.method \in {"undefined", "GET", "get"}
       /\ ~(r.info.url.q /\ Has(r.info.url.params, "query"))
    \/ /\ r.method \in {"POST", "post"}
       /\ r.body.kind # "string"
    \/ /\ r.method \in {"POST", "post"}
       /\ r.body.kind = "string"
       /\ r.body.doc.t = "object"
       /\ Get(r.body.doc.fields, "query").t # "string"

\* C7: an unsupported method, a GET without a `query` parameter, a POST
\* whose body is missing or no string, and a POST JSON body without a string
\* `query` make the send fail with no call to the underlying fetch, and
\* nothing is sent afterwards.
C7_ViolationsMakeNoCall ==
    (pc # "start" /\ ProtocolViolation(request)) =>
        /\ Len(calls) = 0
        /\ inflight = {}
        /\ pc = "rejected"
        /\ result.kind = "error"
        /\ result.error \in {"Unsupported request method",
                             "GET request must contain a query parameter",
                             "POST request must contain a body",
                             "POST request body must contain a query"}

C7_Witness ==
    /\ pc = "rejected"
    /\ request.method = "PUT"
    /\ HasNonEmptyQueryParam(request)
    /\ calls = <<>>
    /\ result.error = "Unsupported request method"

\* C24: when the first response is ok and its body does not signal
\* persisted-query-not-found, the send returns a new response, neither the
\* first nor one of a second call, whose status, status text and headers
\* are those of the first response and whose body is the JSON value read
\* from it; one call was made.
C24_ReconstructedResponse ==
    (pc = "resolved" /\ res.id = 1 /\ Ok(res) /\ ~SignalsNotFound(res)) =>
        /\ result.kind = "response"
        /\ result.response.id = 0
        /\ result.response.status = res.status
        /\ result.response.statusText = res.statusText
        /\ result.response.headers = res.headers
        /\ result.response.body = body
        /\ body = res.body
        /\ Len(calls) = 1

C24_Witness ==
    /\ pc = "resolved"
    /\ res.id = 1
    /\ res.status = 201
    /\ result.response.id = 0
    /\ result.response.status = 201
    /\ result.response.statusText = "Created"
    /\ result.response.headers = "upstream"
    /\ result.response.body = RespBody("object", NoErrors)

Terminal == pc \in {"resolved", "rejected"}

\* the steps of the send: from the start to the without-query call or, for
\* a request that fails validation, to the failure; from the call to the
\* body read or the end; from the body read to the with-hash call or the
\* end; from the with-hash call to the end
SendSteps ==
    {<<"start", "fetch1">>, <<"start", "rejected">>,
     <<"fetch1", "json1">>, <<"fetch1", "resolved">>, <<"fetch1", "rejected">>,
     <<"json1", "fetch2">>, <<"json1", "resolved">>, <<"json1", "rejected">>,
     <<"fetch2", "resolved">>, <<"fetch2", "rejected">>}

\* C27: given that every fetchImpl call and every body read settles, a
\* send that has started ends with a response returned or an error
\* raised; its steps are those of the two-phase protocol, and once it has
\* ended nothing changes: no call is made and the result stays.
C27_SendTerminates ==
    /\ (pc # "start") ~> Terminal
    /\ [][pc' # pc => <<pc, pc'>> \in SendSteps]_vars
    /\ [][Terminal => (pc' = pc /\ result' = result /\ calls' = calls /\ inflight' = inflight)]_vars

C27_Witness ==
    /\ pc = "rejected"
    /\ Len(calls) = 2
    /\ inflight = {}
    /\ res.id = 1
    /\ SignalsNotFound(res)
    /\ result.kind = "error"
    /\ result.error = "TypeError: fetch failed"

\* C28: when the first response is ok and its body is no JSON text, the
\* send rejects with the parse error once the body read has failed: the
\* with-hash request is never sent and no response is returned.
C28_UnparsableBodyRejects ==
    (res.id = 1 /\ Ok(res) /\ res.body.t = "notjson") =>
        /\ pc \in {"json1", "rejected"}
        /\ Len(calls) = 1
        /\ inflight = {}
        /\ pc = "json1" => result = Pending
        /\ pc = "rejected" => (result.kind = "error" /\ result.error = "SyntaxError")

C28_Witness ==
    /\ pc = "rejected"
    /\ res.id = 1
    /\ res.status = 201
    /\ res.body.t = "notjson"
    /\ result.kind = "error"
    /\ result.error = "SyntaxError"
    /\ Len(calls) = 1

----------------------------------------------------------------------------
(* createResponseMiddleware(request, response, skipCookies) *)

\* a cookie definition as set-cookie-parser reads it; maxAge is in seconds
CookieDef(name, value, path, expires, maxAge, secure, domain, sameSite, httpOnly) ==
    [name |-> name, value |-> value, path |-> path, expires |-> expires, maxAge |-> maxAge,
     secure |-> secure, domain |-> domain, sameSite |-> sameSite, httpOnly |-> httpOnly]

Undefined == Maybe(FALSE, 0)

\* `_at=123; Path=/; Expires=...; Secure; Domain=example.com`
CookieDefs_at ==
    CookieDef("_at", "123", "/", "Wed, 09 Jun 2021 10:18:14 GMT", Undefined, TRUE, "example.com", "undefined", FALSE)

\* `_rt=456; Path=/; Max-Age=3600; Secure; SameSite=Strict`
CookieDefs_rt ==
    CookieDef("_rt", "456", "/", "undefined", Maybe(TRUE, 3600), TRUE, "undefined", "strict", FALSE)

\* `_at=789; Max-Age=0; SameSite=None; HttpOnly`
CookieDefs_at0 ==
    CookieDef("_at", "789", "undefined", "undefined", Maybe(TRUE, 0), FALSE, "undefined", "none", TRUE)

CookieDefs == {CookieDefs_at, CookieDefs_rt, CookieDefs_at0}

\* the headers of an upstream response the middleware reads
UpstreamHeaders(requestId, requestAt, serverTiming, setCookie) ==
    [requestId |-> requestId, requestAt |-> requestAt, serverTiming |-> serverTiming, setCookie |-> setCookie]

\* a non-error value handed to the middleware, with the operationName of its request
GqlResponses ==
    {[status |-> 200, operationName |-> op, headers |-> UpstreamHeaders(id, Undefined, st, <<>>)] :
        op \in {"undefined", "Op"}, id \in {"undefined", "req-1"}, st \in {"undefined", "", "db;dur=10"}}
    \cup
    {[status |-> 200, operationName |-> "Op", headers |-> UpstreamHeaders("req-1", Maybe(TRUE, 1), "api;dur=20", cs)] :
        cs \in {ds \in SeqsUpTo(CookieDefs, MaxCookies) : \A i, j \in DOMAIN ds : ds[i] = ds[j] => i = j}}

\* setCookie.parse(setCookie.splitCookiesString(header), { map: true }): one
\* entry per cookie name, at the place of the name's first definition and
\* with the content of its last
parseMap(defs) ==
    LET first(i) == \A j \in 1..(i - 1) : defs[j].name # defs[i].name
        last(n)  == CHOOSE i \in DOMAIN defs :
                        defs[i].name = n /\ \A j \in DOMAIN defs : defs[j].name = n => j <= i
        firsts   == SelectSeq([i \in DOMAIN defs |-> [i |-> i, d |-> defs[i]]], LAMBDA x : first(x.i))
    IN  [k \in DOMAIN firsts |-> defs[last(firsts[k].d.name)]]

\* the maxAge option: `newCookie.maxAge ? newCookie.maxAge * 1000 : undefined`
maxAgeOption(maxAge) ==
    IF maxAge.def /\ maxAge.v # 0 THEN Maybe(TRUE, maxAge.v * 1000) ELSE Undefined

\* mutant: the upstream's sameSite and httpOnly are passed on
cookieCall_UpstreamAttributes(c) ==
    [name |-> c.name, value |-> c.value, path |-> c.path, expires |-> c.expires,
     maxAge |-> maxAgeOption(c.maxAge), secure |-> c.secure, domain |-> c.domain,
     sameSite |-> c.sameSite, httpOnly |-> c.httpOnly]

\* response.cookie(key, newCookie.value, { ... })
cookieCall(c) ==
    [name |-> c.name, value |-> c.value, path |-> c.path, expires |-> c.expires,
     maxAge |-> maxAgeOption(c.maxAge), secure |-> c.secure, domain |-> c.domain,
     sameSite |-> "lax", httpOnly |-> TRUE]

\* mutant: skipCookies is not looked at
cookiesToSet_IgnoresSkip(skip, setCookieHeader) ==
    IF setCookieHeader # <<>>
    THEN LET parsed == parseMap(setCookieHeader)
         IN  [k \in DOMAIN parsed |-> cookieCall(parsed[k])]
    ELSE <<>>

\* the cookies one non-error invocation sets
cookiesToSet(skip, setCookieHeader) ==
    IF ~skip /\ setCookieHeader # <<>>
    THEN LET parsed == parseMap(setCookieHeader)
         IN  [k \in DOMAIN parsed |-> cookieCall(parsed[k])]
    ELSE <<>>

\* Date.now() - parseInt(reqStarted || "0")
reqDuration(t, reqStarted) == t - (IF reqStarted.def THEN reqStarted.v ELSE 0)

\* mutant: the header is set, replacing what the outbound response held
appendServerTiming_Sets(prev, value) ==
    IF value \notin {"undefined", ""} THEN <<value>> ELSE prev

\* `if (gqlResponse.headers.get("server-timing")) response.appendHeader("server-timing", ...)`
appendServerTiming(prev, value) ==
    IF value \notin {"undefined", ""} THEN Append(prev, value) ELSE prev

\* mutant: the warning is logged and the headers are written all the same
RelayResponse_IgnoresHeadersSent(r) ==
    /\ relays < MaxRelays
    /\ relays' = relays + 1
    /\ raised' = NotRaised
    /\ lastError' = NoError
    /\ givenError' = NoError
    /\ givenResponse' = r
    /\ LET info == LogLine("info", "API request returned", NoError,
                       LogFields(r.headers.requestId, r.operationName, r.status,
                                 reqDuration(now, r.headers.requestAt)))
       IN  /\ logged' = IF headersSent
                        THEN <<info, LogLine("warn", "Response headers already sent", NoError, NoFields)>>
                        ELSE <<info>>
           /\ outServerTiming' = appendServerTiming(outServerTiming, r.headers.serverTiming)
           /\ outCookies' = outCookies \o cookiesToSet(skipCookies, r.headers.setCookie)
    /\ UNCHANGED <<skipCookies, headersSent>>
    /\ UNCHANGED <<pqVars, clientVars, hashVars, serverVars>>

\* the branch `!(gqlResponse instanceof Error)`
RelayResponse(r) ==
    /\ relays < MaxRelays
    /\ relays' = relays + 1
    /\ raised' = NotRaised
    /\ lastError' = NoError
    /\ givenError' = NoError
    /\ givenResponse' = r
    /\ LET info == LogLine("info", "API request returned", NoError,
                       LogFields(r.headers.requestId, r.operationName, r.status,
                                 reqDuration(now, r.headers.requestAt)))
       IN  IF headersSent
           THEN /\ logged' = <<info, LogLine("warn", "Response headers already sent", NoError, NoFields)>>
                /\ UNCHANGED <<outServerTiming, outCookies>>
           ELSE /\ logged' = <<info>>
                /\ outServerTiming' = appendServerTiming(outServerTiming, r.headers.serverTiming)
                /\ outCookies' = outCookies \o cookiesToSet(skipCookies, r.headers.setCookie)
    /\ UNCHANGED <<skipCookies, headersSent>>
    /\ UNCHANGED <<pqVars, clientVars, hashVars, serverVars>>

\* mutant: the stack is left on the error
redact_KeepsStack(err) ==
    IF err.variables.def /\ err.variables.password \notin {"undefined", ""}
    THEN [err EXCEPT !.variables.password = "undefined",
                     !.message = [text |-> "--redacted--", secret |-> FALSE]]
    ELSE err

\* `if (errRequest.variables && errRequest.variables.password) { ... }`
redact(err) ==
    IF err.variables.def /\ err.variables.password \notin {"undefined", ""}
    THEN [err EXCEPT !.variables.password = "undefined",
                     !.stack = [def |-> FALSE, secret |-> FALSE],
                     !.message = [text |-> "--redacted--", secret |-> FALSE]]
    ELSE err

\* the errors the loop walks: `gqlResponse.response.errors || []`
errorsOf(err) == IF err.errors.def THEN err.errors.v ELSE <<>>

\* mutant: only the first error is looked at
unauthorized_FirstOnly(errors) == errors # <<>> /\ errors[1].code = "unauthorized"

\* whether the loop reaches an entry with extensions.code "unauthorized"
unauthorized(errors) == \E i \in DOMAIN errors : errors[i].code = "unauthorized"

firstUnauthorized(errors) ==
    errors[CHOOSE i \in DOMAIN errors :
              errors[i].code = "unauthorized" /\ \A j \in 1..(i - 1) : errors[j].code # "unauthorized"]

\* mutant: the headers of the upstream error response are relayed too
RelayClientError_RelaysHeaders(err) ==
    /\ relays < MaxRelays
    /\ relays' = relays + 1
    /\ givenError' = err
    /\ givenResponse' = NoGqlResponse
    /\ LET e == redact(err)
       IN  /\ lastError' = e
           /\ IF unauthorized(errorsOf(e))
              THEN /\ logged' = <<LogLine("error", "",
                                     ErrorObject("GraphQLError", firstUnauthorized(errorsOf(e)).message, FALSE,
                                                 FALSE, NoVariables, 0,
                                                 Maybe(TRUE, <<firstUnauthorized(errorsOf(e))>>)),
                                     NoFields)>>
                   /\ raised' = RaisedResponse("Unauthorized", FALSE, 403)
              ELSE /\ logged' = <<LogLine("error", "", e, NoFields)>>
                   /\ raised' = RaisedResponse(e.message.text, e.message.secret, e.status)
    /\ outServerTiming' = IF headersSent THEN outServerTiming
                          ELSE appendServerTiming(outServerTiming, err.headers.serverTiming)
    /\ outCookies' = IF headersSent THEN outCookies
                     ELSE outCookies \o cookiesToSet(skipCookies, err.headers.setCookie)
    /\ UNCHANGED <<skipCookies, headersSent>>
    /\ UNCHANGED <<pqVars, clientVars, hashVars, serverVars>>

\* the branch `gqlResponse instanceof ClientError`
RelayClientError(err) ==
    /\ relays < MaxRelays
    /\ relays' = relays + 1
    /\ givenError' = err
    /\ givenResponse' = NoGqlResponse
    /\ LET e == redact(err)
       IN  /\ lastError' = e
           /\ IF unauthorized(errorsOf(e))
              THEN /\ logged' = <<LogLine("error", "",
                                     ErrorObject("GraphQLError", firstUnauthorized(errorsOf(e)).message, FALSE,
                                                 FALSE, NoVariables, 0,
                                                 Maybe(TRUE, <<firstUnauthorized(errorsOf(e))>>)),
                                     NoFields)>>
                   /\ raised' = RaisedResponse("Unauthorized", FALSE, 403)
              ELSE /\ logged' = <<LogLine("error", "", e, NoFields)>>
                   /\ raised' = RaisedResponse(e.message.text, e.message.secret, e.status)
    /\ UNCHANGED <<skipCookies, headersSent, outServerTiming, outCookies>>
    /\ UNCHANGED <<pqVars, clientVars, hashVars, serverVars>>

\* the last branch: any other Error
RelayOtherError(err) ==
    /\ relays < MaxRelays
    /\ relays' = relays + 1
    /\ lastError' = err
    /\ givenError' = err
    /\ givenResponse' = NoGqlResponse
    /\ logged' = <<LogLine("error", "", err, NoFields)>>
    /\ raised' = Rethrown(err)
    /\ UNCHANGED <<skipCookies, headersSent, outServerTiming, outCookies>>
    /\ UNCHANGED <<pqVars, clientVars, hashVars, serverVars>>

\* Express sends the outbound response's headers
HeadersGetSent ==
    /\ ~headersSent
    /\ headersSent' = TRUE
    /\ UNCHANGED <<skipCookies, outServerTiming, outCookies, logged, raised, lastError, givenError,
                   givenResponse, relays>>
    /\ UNCHANGED <<pqVars, clientVars, hashVars, serverVars>>

(* what the middleware may be given *)

Passwords == {"undefined", "", "secret123"}

VariablesGiven ==
    {NoVariables}
        \cup {[def |-> TRUE, id |-> "42", password |-> pw] : pw \in Passwords}

GraphQLErrors ==
    {Entry("Invalid credentials", "undefined"),
     Entry("unauthorized", "unauthorized"),
     Entry("Forbidden", "UNAUTHORIZED")}

\* `response.errors` of a ClientError: missing, empty, or up to two entries
\* with an "unauthorized" one first, last or nowhere
ErrorLists ==
    {Maybe(FALSE, <<>>), Maybe(TRUE, <<>>)}
        \cup {Maybe(TRUE, <<e>>) : e \in GraphQLErrors}
        \cup {Maybe(TRUE, <<Entry("Invalid credentials", "undefined"), Entry("unauthorized", "unauthorized")>>),
              Maybe(TRUE, <<Entry("unauthorized", "unauthorized"), Entry("Invalid credentials", "undefined")>>),
              Maybe(TRUE, <<Entry("Forbidden", "UNAUTHORIZED"), Entry("Invalid credentials", "undefined")>>)}

\* new ClientError(response, request) of graphql-request: the message, and so
\* the stack, embed the JSON text of the request with its variables
ClientErrors ==
    {ErrorObject("ClientError", "GraphQL Error", v.def /\ v.password \notin {"undefined", ""},
                 TRUE, v, st, es) :
        v \in VariablesGiven, st \in {200, 400, 500}, es \in ErrorLists}
    \cup
    {[ErrorObject("ClientError", "GraphQL Error", v.def /\ v.password \notin {"undefined", ""},
                  TRUE, v, 400, Maybe(TRUE, <<e>>))
         EXCEPT !.headers = UpstreamHeaders("req-1", Undefined, "api;dur=20", <<CookieDefs_at, CookieDefs_rt>>)] :
        v \in {NoVariables, [def |-> TRUE, id |-> "42", password |-> "secret123"]},
        e \in {Entry("Invalid credentials", "undefined"), Entry("unauthorized", "unauthorized")}}

OtherErrors ==
    {ErrorObject("Error", t, FALSE, TRUE, NoVariables, 0, Maybe(FALSE, <<>>)) :
        t \in {"fetch failed", "Unexpected token < in JSON"}}

InitRelay ==
    /\ skipCookies \in BOOLEAN
    /\ headersSent = FALSE
    /\ outServerTiming \in {<<>>, <<"app;dur=5">>}
    /\ outCookies = <<>>
    /\ logged = <<>>
    /\ raised = NotRaised
    /\ lastError = NoError
    /\ givenError = NoError
    /\ givenResponse = NoGqlResponse
    /\ relays = 0
    /\ PQInit
    /\ now = MaxClock
    /\ headers = <<>>
    /\ fetchCalls = <<>>
    /\ pending = FALSE
    /\ sends = 0
    /\ bound = FALSE
    /\ uri = ""
    /\ inbound = NoInbound
    /\ options = NoOptions
    /\ HashFresh
    /\ ServerFresh

RelayNext ==
    \/ \E r \in GqlResponses : RelayResponse(r)
    \/ \E e \in ClientErrors : RelayClientError(e)
    \/ \E e \in OtherErrors : RelayOtherError(e)
    \/ HeadersGetSent

SpecRelay == InitRelay /\ [][RelayNext]_vars

----------------------------------------------------------------------------
(* Claims about createResponseMiddleware *)

HasUnauthorized(err) ==
    /\ err.errors.def
    /\ \E i \in DOMAIN err.errors.v : err.errors.v[i].code = "unauthorized"

\* C9: given a ClientError whose error list has an entry with
\* extensions.code "unauthorized", the middleware throws a Response
\* "Unauthorized" with status 403, whatever the upstream status and the
\* other errors; the generic branch (logging the ClientError, raising the
\* upstream status) is not reached.
C9_UnauthorizedIs403 ==
    (lastError.class = "ClientError" /\ HasUnauthorized(lastError)) =>
        /\ raised.kind = "Response"
        /\ raised.status = 403
        /\ raised.text = "Unauthorized"
        /\ Len(logged) = 1
        /\ logged[1].level = "error"
        /\ logged[1].payload.class = "GraphQLError"
        /\ logged[1].payload.errors.v[1].code = "unauthorized"

C9_Witness ==
    /\ lastError.class = "ClientError"
    /\ lastError.status = 500
    /\ lastError.errors.def
    /\ Len(lastError.errors.v) = 2
    /\ lastError.errors.v[1].code = "undefined"
    /\ lastError.errors.v[2].code = "unauthorized"
    /\ raised.status = 403

\* whether an object that is logged or kept holds the plaintext password
Leaks(e) ==
    \/ e.message.secret
    \/ e.stack.def /\ e.stack.secret
    \/ e.variables.def /\ e.variables.password \notin {"undefined", ""}

CarriesPassword(err) == err.variables.def /\ err.variables.password \notin {"undefined", ""}

\* C11 as stated: given a ClientError with no "unauthorized" entry, the
\* middleware throws a Response whose status is the upstream status and
\* whose text is the message the error came with.
C11_RaisesUpstreamStatusAndMessage ==
    (givenError.class = "ClientError" /\ ~HasUnauthorized(givenError)) =>
        /\ raised.kind = "Response"
        /\ raised.status = givenError.status
        /\ raised.text = givenError.message.text

\* C11 as amended: given a ClientError with no "unauthorized" entry, the
\* middleware logs the error and throws a Response whose status is the
\* upstream status and whose text is the error's message as the redaction
\* left it: the message the error came with when its request variables hold
\* no password, and "--redacted--" when they do.
C11_RaisesUpstreamStatusAndLeftMessage ==
    (givenError.class = "ClientError" /\ ~HasUnauthorized(givenError)) =>
        /\ raised.kind = "Response"
        /\ raised.status = givenError.status
        /\ raised.text = lastError.message.text
        /\ raised.text = (IF CarriesPassword(givenError) THEN "--redacted--" ELSE givenError.message.text)
        /\ Len(logged) = 1
        /\ logged[1].level = "error"
        /\ logged[1].payload = lastError

C11_Witness ==
    /\ givenError.class = "ClientError"
    /\ givenError.status = 500
    /\ givenError.errors = Maybe(TRUE, <<Entry("Forbidden", "UNAUTHORIZED"), Entry("Invalid credentials", "undefined")>>)
    /\ CarriesPassword(givenError)
    /\ raised.kind = "Response"
    /\ raised.status = 500
    /\ raised.text = "--redacted--"

\* C12: given an error that is no ClientError (a network failure, a JSON
\* parse failure), the middleware logs it and throws the very object it was
\* given: the object is not changed, no Response is made of it and no
\* status is assigned.
C12_RethrowsIdentical ==
    givenError.class = "Error" =>
        /\ raised.kind = "rethrow"
        /\ raised.error = givenError
        /\ raised.status = 0
        /\ lastError = givenError
        /\ Len(logged) = 1
        /\ logged[1].level = "error"
        /\ logged[1].payload = givenError

C12_Witness ==
    /\ givenError.class = "Error"
    /\ givenError.message.text = "Unexpected token < in JSON"
    /\ givenError.stack.def
    /\ raised.kind = "rethrow"
    /\ raised.error = givenError
    /\ relays = 2

\* a step in which the middleware handles a non-error value
RelaysResponse == relays' = relays + 1 /\ givenResponse' # NoGqlResponse

\* C13: when the outbound response has sent its headers, an invocation with
\* a non-error value logs a warning after the info line and returns: the
\* outbound server-timing values and cookies stay as they were, whatever
\* headers the upstream response carries, and nothing is thrown.
C13_HeadersSentStops ==
    [][(headersSent /\ RelaysResponse) =>
          /\ outServerTiming' = outServerTiming
          /\ outCookies' = outCookies
          /\ raised' = NotRaised
          /\ Len(logged') = 2
          /\ logged'[1].level = "info"
          /\ logged'[2].level = "warn"]_vars

C13_Witness ==
    /\ headersSent
    /\ ~skipCookies
    /\ givenResponse.headers.serverTiming = "api;dur=20"
    /\ Len(givenResponse.headers.setCookie) = 2
    /\ Len(logged) = 2
    /\ logged[2].level = "warn"
    /\ outCookies = <<>>
    /\ outServerTiming = <<>>
    /\ raised = NotRaised

\* C14: with skipCookies = true no response.cookie call is ever made,
\* however many upstream responses are relayed and whatever their
\* set-cookie headers hold.
C14_SkipCookiesSetsNone == skipCookies => outCookies = <<>>

C14_Witness ==
    /\ skipCookies
    /\ ~headersSent
    /\ relays = 2
    /\ Len(givenResponse.headers.setCookie) = 2
    /\ outServerTiming # <<>>
    /\ outCookies = <<>>

\* the response.cookie calls a step adds, and the definitions it was given
AddedCookies == SubSeq(outCookies', Len(outCookies) + 1, Len(outCookies'))
GivenCookieDefs == givenResponse'.headers.setCookie

\* C15: every response.cookie call of the middleware passes sameSite "lax"
\* and httpOnly true, whatever the upstream definition says of the two, and
\* the name, value, path, expires, secure and domain of one of the
\* definitions the upstream set-cookie header holds; calls made earlier
\* stay as they are.
C15_LaxHttpOnlyRestAsParsed ==
    [][/\ Len(outCookies') >= Len(outCookies)
       /\ SubSeq(outCookies', 1, Len(outCookies)) = outCookies
       /\ AddedCookies # <<>> => RelaysResponse
       /\ \A k \in DOMAIN AddedCookies :
             /\ AddedCookies[k].sameSite = "lax"
             /\ AddedCookies[k].httpOnly = TRUE
             /\ \E i \in DOMAIN GivenCookieDefs :
                   /\ AddedCookies[k].name = GivenCookieDefs[i].name
                   /\ AddedCookies[k].value = GivenCookieDefs[i].value
                   /\ AddedCookies[k].path = GivenCookieDefs[i].path
                   /\ AddedCookies[k].expires = GivenCookieDefs[i].expires
                   /\ AddedCookies[k].secure = GivenCookieDefs[i].secure
                   /\ AddedCookies[k].domain = GivenCookieDefs[i].domain]_vars

C15_Witness ==
    /\ Len(outCookies) = 2
    /\ givenResponse.headers.setCookie = <<CookieDefs_rt, CookieDefs_at0>>
    /\ outCookies[1].name = "_rt"
    /\ outCookies[1].sameSite = "lax"
    /\ outCookies[1].httpOnly = TRUE
    /\ outCookies[1].domain = "undefined"
    /\ outCookies[2].name = "_at"
    /\ outCookies[2].secure = FALSE
    /\ outCookies[2].sameSite = "lax"

\* C16 as stated: a cookie relayed from an upstream definition that carries
\* max-age = N seconds is set with maxAge N * 1000.
C16_MaxAgeTimes1000 ==
    [][\A k \in DOMAIN AddedCookies : \A i \in DOMAIN GivenCookieDefs :
          (/\ AddedCookies[k].name = GivenCookieDefs[i].name
           /\ AddedCookies[k].value = GivenCookieDefs[i].value
           /\ GivenCookieDefs[i].maxAge.def) =>
              AddedCookies[k].maxAge = Maybe(TRUE, GivenCookieDefs[i].maxAge.v * 1000)]_vars

\* C17 as stated: an invocation that relays cookies makes as many
\* response.cookie calls as the upstream set-cookie header holds
\* definitions.
C17_OneCookiePerDefinition ==
    [][(RelaysResponse /\ ~headersSent /\ ~skipCookies) =>
          Len(AddedCookies) = Len(GivenCookieDefs)]_vars

\* a step in which the middleware handles an error
RelaysError == relays' = relays + 1 /\ givenError'.class # "none"

\* C29: an invocation with a ClientError or another error leaves the
\* outbound response as it was, also when the upstream error response
\* carries set-cookie and server-timing headers: no cookie is set and no
\* server-timing value appended. The error is left as it came or, when its
\* variables hold a password, without the password and the stack and with
\* the message replaced; one error line is logged and something is thrown.
C29_ErrorsLeaveResponse ==
    [][RelaysError =>
          /\ outCookies' = outCookies
          /\ outServerTiming' = outServerTiming
          /\ headersSent' = headersSent
          /\ skipCookies' = skipCookies
          /\ Len(logged') = 1
          /\ logged'[1].level = "error"
          /\ raised'.kind \in {"Response", "rethrow"}
          /\ IF givenError'.class = "ClientError" /\ CarriesPassword(givenError')
             THEN lastError' = [givenError' EXCEPT !.variables.password = "undefined",
                                                   !.stack = [def |-> FALSE, secret |-> FALSE],
                                                   !.message = [text |-> "--redacted--", secret |-> FALSE]]
             ELSE lastError' = givenError']_vars

C29_Witness ==
    /\ givenError.class = "ClientError"
    /\ givenError.headers.serverTiming = "api;dur=20"
    /\ givenError.headers.setCookie = <<CookieDefs_at, CookieDefs_rt>>
    /\ ~skipCookies
    /\ ~headersSent
    /\ relays = 1
    /\ raised.kind = "Response"
    /\ raised.status = 400
    /\ outCookies = <<>>
    /\ outServerTiming = <<>>

\* C18: an invocation that relays a server-timing value appends it: the
\* values the outbound response held stay, in their order, and the upstream
\* value comes after them; an upstream response with no server-timing
\* value leaves the header as it is, and no step shortens or rewrites it.
C18_ServerTimingAppended ==
    [][/\ Len(outServerTiming') >= Len(outServerTiming)
       /\ SubSeq(outServerTiming', 1, Len(outServerTiming)) = outServerTiming
       /\ (RelaysResponse /\ ~headersSent) =>
             IF givenResponse'.headers.serverTiming \in {"undefined", ""}
             THEN outServerTiming' = outServerTiming
             ELSE /\ Len(outServerTiming') = Len(outServerTiming) + 1
                  /\ outServerTiming'[Len(outServerTiming')] = givenResponse'.headers.serverTiming]_vars

C18_Witness ==
    /\ ~headersSent
    /\ relays = 2
    /\ outServerTiming = <<"app;dur=5", "db;dur=10", "api;dur=20">>

----------------------------------------------------------------------------
(* createClient(uri, headers, responseMiddleware) *)

DEFAULT_ENDPOINT == "http://localhost:3000/graphql"

\* the request graphql-request hands to the configured fetch: a POST whose
\* JSON body carries the query text, and the variables and operation name
\* when there are any
GraphQLRequestInit(query, variables, operationName, hdrs) ==
    [method |-> "POST",
     headers |-> hdrs,
     keepalive |-> FALSE,
     body |-> <<<<"query", JStr(query)>>>>
                 \o (IF variables THEN <<<<"variables", JObj("vars")>>>> ELSE <<>>)
                 \o (IF operationName # "undefined" THEN <<<<"operationName", JStr(operationName)>>>> ELSE <<>>)]

\* mutant: the fetch wrapped by the persisted-query transport, whose first
\* call carries the hash in place of the query
clientFetch_Persisted(url, init) ==
    <<[url |-> url,
       init |-> [init EXCEPT !.keepalive = TRUE,
                             !.body = Delete(Spread(init.body, "extensions",
                                                    persistedQueryExtension(hashCache(Get(init.body, "query").s))),
                                             "query")]]>>

\* `fetch: (url, init) => fetch(url, { keepalive: true, ...init })`: the
\* calls to fetch one call of the wrapper makes
clientFetch(url, init) == <<[url |-> url, init |-> [init EXCEPT !.keepalive = TRUE]]>>

\* String.prototype.toLowerCase on the header names of the model
toLowerCase(name) ==
    CASE name = "X-Custom-Header" -> "x-custom-header"
      [] name = "Cookie"          -> "cookie"
      [] OTHER                    -> name

\* Headers.set: names are lower-cased, every value under the name is replaced
headersSet(h, name, value) == Append(Delete(h, toLowerCase(name)), <<toLowerCase(name), value>>)

\* Headers.append: names are lower-cased, the value is added to those under the name
headersAppend(h, name, value) == Append(h, <<toLowerCase(name), value>>)

\* mutant: the timestamp is appended to those the collection holds
requestHeaders_Appends(hdrs, t) == headersAppend(hdrs, "x-request-at", JNum(t))

\* `headers: () => { headers.set("x-request-at", Date.now().toString()); return headers }`;
\* JNum(t) stands for the decimal text of t
requestHeaders(hdrs, t) == headersSet(hdrs, "x-request-at", JNum(t))

\* header collections createClient may be handed
GivenHeaders ==
    {<<>>,
     <<<<"host", JStr("example.com")>>, <<"x-forwarded-proto", JStr("https")>>>>,
     <<<<"content-type", JStr("text/plain")>>, <<"cookie", JStr("_at=123")>>>>,
     <<<<"x-request-at", JNum(0)>>>>,
     <<<<"x-request-at", JNum(0)>>, <<"accept", JStr("*/*")>>, <<"x-request-at", JNum(1)>>>>}

\* the state createClient leaves: `headers.set("content-type", "application/json")`
InitClient ==
    /\ \E h \in GivenHeaders : headers = headersSet(h, "content-type", JStr("application/json"))
    /\ now = 1
    /\ fetchCalls = <<>>
    /\ pending = FALSE
    /\ sends = 0
    /\ bound = TRUE
    /\ uri = DEFAULT_ENDPOINT
    /\ inbound = NoInbound
    /\ options = NoOptions
    /\ PQInit
    /\ RelayFresh
    /\ HashFresh
    /\ ServerFresh

\* client.request(document, variables) up to the call of fetch
ClientRequest(query, variables, operationName) ==
    /\ bound
    /\ ~pending
    /\ sends < MaxSends
    /\ sends' = sends + 1
    /\ headers' = requestHeaders(headers, now)
    /\ fetchCalls' = fetchCalls \o
          clientFetch(uri, GraphQLRequestInit(query, variables, operationName, headers'))
    /\ pending' = TRUE
    /\ UNCHANGED <<now, bound, uri, inbound, options>>
    /\ UNCHANGED <<pqVars, relayVars, hashVars, serverVars>>

\* the fetch promise settles and the send is over
FetchSettles ==
    /\ pending
    /\ pending' = FALSE
    /\ UNCHANGED <<now, headers, fetchCalls, sends, bound, uri, inbound, options>>
    /\ UNCHANGED <<pqVars, relayVars, hashVars, serverVars>>

\* time passes
Tick ==
    /\ now < MaxClock
    /\ now' = now + 1
    /\ UNCHANGED <<headers, fetchCalls, pending, sends, bound, uri, inbound, options>>
    /\ UNCHANGED <<pqVars, relayVars, hashVars, serverVars>>

ClientNext ==
    \/ \E q \in {"q1", "q2"}, v \in BOOLEAN, op \in {"undefined", "Op"} : ClientRequest(q, v, op)
    \/ FetchSettles
    \/ Tick

SpecClient == InitClient /\ [][ClientNext]_vars

----------------------------------------------------------------------------
(* Claims about createClient *)

EntriesUnder(h, n) == SelectSeq(h, LAMBDA p : p[1] = n)
EntriesBeside(h, n) == SelectSeq(h, LAMBDA p : p[1] # n)

\* C21: a send through the client sets the collection's x-request-at to
\* the time of the send: afterwards the collection holds one x-request-at
\* value, that time, whatever it held under the name before; the other
\* headers stay as they were, the call made upstream carries the
\* collection, and no other step changes the collection.
C21_RequestAtOverwritten ==
    [][IF sends' = sends + 1
       THEN /\ EntriesUnder(headers', "x-request-at") = <<<<"x-request-at", JNum(now)>>>>
            /\ EntriesBeside(headers', "x-request-at") = EntriesBeside(headers, "x-request-at")
            /\ fetchCalls'[Len(fetchCalls')].init.headers = headers'
       ELSE headers' = headers]_vars

C21_Witness ==
    /\ sends = 2
    /\ Has(headers, "accept")
    /\ EntriesUnder(fetchCalls[1].init.headers, "x-request-at") = <<<<"x-request-at", JNum(1)>>>>
    /\ EntriesUnder(headers, "x-request-at") = <<<<"x-request-at", JNum(3)>>>>
    /\ fetchCalls[2].init.headers = headers

----------------------------------------------------------------------------
(* createRequest(request, response, responseMiddleware, options) *)

DEFAULT_SHARED_SECRET_HEADER == "x-shared-secret"

DEFAULT_SHARED_SECRET == ""

DEFAULT_PASSTHROUGH_HEADERS ==
    <<"user-agent", "accept", "accept-language", "accept-encoding", "referer", "origin", "cookie",
      "sec-fetch-dest", "sec-fetch-mode", "sec-fetch-site", "x-forwarded-for", "x-test-header">>

\* mutant: the default list is included whatever the flag says
buildPassthroughHeaderSet_AlwaysDefaults(opts) ==
    LET passthroughHeaders == IF opts.passthroughHeaders.def THEN opts.passthroughHeaders.v ELSE <<>>
        combined == DEFAULT_PASSTHROUGH_HEADERS \o passthroughHeaders
    IN  {toLowerCase(combined[i]) : i \in DOMAIN combined}

buildPassthroughHeaderSet(opts) ==
    LET passthroughHeaders == IF opts.passthroughHeaders.def THEN opts.passthroughHeaders.v ELSE <<>>
        includeDefaultPassthroughHeaders ==
            IF opts.includeDefaultPassthroughHeaders = "undefined"
            THEN TRUE
            ELSE opts.includeDefaultPassthroughHeaders = "true"
        combined == (IF includeDefaultPassthroughHeaders THEN DEFAULT_PASSTHROUGH_HEADERS ELSE <<>>)
                        \o passthroughHeaders
    IN  {toLowerCase(combined[i]) : i \in DOMAIN combined}

\* a value of request.headers: undefined, a string, or an array of strings
HeaderValue(kind, vals) == [kind |-> kind, vals |-> vals]

\* `for (const value of values) headers.append(key, value)`
RECURSIVE appendAll(_, _, _)
appendAll(h, key, vals) ==
    IF vals = <<>> THEN h ELSE appendAll(headersAppend(h, key, JStr(Head(vals))), key, Tail(vals))

\* one turn of the loop over Object.entries(request.headers)
forwardHeader(h, passthroughHeaderSet, key, values) ==
    IF toLowerCase(key) \notin passthroughHeaderSet
    THEN h
    ELSE IF values.kind = "undefined" \/ (values.kind = "string" /\ values.vals[1] = "")
    THEN h
    ELSE IF values.kind = "array"
    THEN appendAll(h, key, values.vals)
    ELSE headersSet(h, key, JStr(values.vals[1]))

RECURSIVE forwardHeaders(_, _, _)
forwardHeaders(h, passthroughHeaderSet, entries) ==
    IF entries = <<>>
    THEN h
    ELSE forwardHeaders(forwardHeader(h, passthroughHeaderSet, Head(entries)[1], Head(entries)[2]),
                        passthroughHeaderSet, Tail(entries))

\* mutant: the header is set whether or not a secret is configured
setSharedSecret_Always(h, opts) ==
    LET sharedSecret == IF opts.sharedSecret = "undefined" THEN DEFAULT_SHARED_SECRET ELSE opts.sharedSecret
        sharedSecretHeader ==
            IF opts.sharedSecretHeader = "undefined" THEN DEFAULT_SHARED_SECRET_HEADER ELSE opts.sharedSecretHeader
    IN  headersSet(h, sharedSecretHeader, JStr(sharedSecret))

\* `if (sharedSecret) headers.set(sharedSecretHeader, sharedSecret)`
setSharedSecret(h, opts) ==
    LET sharedSecret == IF opts.sharedSecret = "undefined" THEN DEFAULT_SHARED_SECRET ELSE opts.sharedSecret
        sharedSecretHeader ==
            IF opts.sharedSecretHeader = "undefined" THEN DEFAULT_SHARED_SECRET_HEADER ELSE opts.sharedSecretHeader
    IN  IF sharedSecret # "" THEN headersSet(h, sharedSecretHeader, JStr(sharedSecret)) ELSE h

\* mutant: host and x-forwarded-proto are set before the inbound headers are
\* forwarded
createRequestHeaders_TrustedFirst(req, opts) ==
    LET withHost  == headersSet(<<>>, "host", JStr(req.hostname))
        withProto == headersSet(withHost, "x-forwarded-proto",
                                JStr(IF req.protocol = "https" THEN "https" ELSE "http"))
        forwarded == forwardHeaders(withProto, buildPassthroughHeaderSet(opts), req.headers)
    IN  setSharedSecret(forwarded, opts)

\* the Headers collection createRequest hands to createClient
createRequestHeaders(req, opts) ==
    LET forwarded == forwardHeaders(<<>>, buildPassthroughHeaderSet(opts), req.headers)
        withHost  == headersSet(forwarded, "host", JStr(req.hostname))
        withProto == headersSet(withHost, "x-forwarded-proto",
                                JStr(IF req.protocol = "https" THEN "https" ELSE "http"))
    IN  setSharedSecret(withProto, opts)

\* createRequest up to `return client.request.bind(client)`, createClient included
CreateRequest(req, opts) ==
    /\ ~bound
    /\ bound' = TRUE
    /\ inbound' = req
    /\ options' = opts
    /\ uri' = IF opts.endpoint = "undefined" THEN DEFAULT_ENDPOINT ELSE opts.endpoint
    /\ headers' = headersSet(createRequestHeaders(req, opts), "content-type", JStr("application/json"))
    /\ UNCHANGED <<now, fetchCalls, pending, sends>>
    /\ UNCHANGED <<pqVars, relayVars, hashVars, serverVars>>

(* what createRequest may be given *)

\* an HTTPS request with a cookie, an empty accept header, a mixed-case
\* custom header and a shared-secret header of the caller's making
InboundSecure ==
    InboundRequest(<<<<"host", HeaderValue("string", <<"example.com:8443">>)>>,
                     <<"cookie", HeaderValue("string", <<"_at=123">>)>>,
                     <<"accept", HeaderValue("string", <<"">>)>>,
                     <<"x-test-header", HeaderValue("string", <<"should-not-forward">>)>>,
                     <<"X-Custom-Header", HeaderValue("string", <<"custom-value">>)>>,
                     <<"x-shared-secret", HeaderValue("string", <<"forged">>)>>>>,
                   "example.com", "https")

\* an HTTP request with a two-valued header, a header without value, one
\* with no values and an x-forwarded-proto of the caller's making
InboundPlain ==
    InboundRequest(<<<<"host", HeaderValue("string", <<"example.com">>)>>,
                     <<"x-forwarded-for", HeaderValue("array", <<"10.0.0.1", "10.0.0.2">>)>>,
                     <<"referer", HeaderValue("undefined", <<>>)>>,
                     <<"accept-language", HeaderValue("array", <<>>)>>,
                     <<"x-forwarded-proto", HeaderValue("string", <<"https">>)>>,
                     <<"x-custom-header", HeaderValue("string", <<"custom-value">>)>>>>,
                   "example.com", "http")

InboundRequests == {InboundSecure, InboundPlain}

PassthroughGiven ==
    {Maybe(FALSE, <<>>), Maybe(TRUE, <<"x-custom-header">>), Maybe(TRUE, <<"X-Custom-Header", "host", "x-forwarded-proto">>),
     Maybe(TRUE, <<"x-shared-secret">>)}

OptionsGiven ==
    {GraphQLClientOptions(e[1], secret, e[2], pt, inc) :
        e \in {<<"undefined", "undefined">>, <<"http://api.internal/graphql", "x-api-secret">>},
        secret \in {"undefined", "", "s3cret"},
        pt \in PassthroughGiven,
        inc \in {"undefined", "true", "false"}}

InitRequest == PQInit /\ RelayFresh /\ ClientFresh /\ HashFresh /\ ServerFresh

RequestNext ==
    \/ \E req \in InboundRequests, opts \in OptionsGiven : CreateRequest(req, opts)
    \/ \E q \in {"q1", "q2"} : ClientRequest(q, FALSE, "undefined")
    \/ FetchSettles
    \/ Tick

SpecRequest == InitRequest /\ [][RequestNext]_vars

----------------------------------------------------------------------------
(* Claims about createRequest *)

\* the values a Headers collection holds under a name, in order
ValuesUnder(h, n) ==
    LET ps == SelectSeq(h, LAMBDA p : p[1] = n)
    IN  [i \in DOMAIN ps |-> ps[i][2].s]

\* the passthrough set as the claims describe it: the caller's names,
\* lower-cased, with the default names unless the flag is false
ClaimedPassthroughSet ==
    {toLowerCase(options.passthroughHeaders.v[i]) : i \in DOMAIN options.passthroughHeaders.v}
        \cup (IF options.includeDefaultPassthroughHeaders = "false"
              THEN {}
              ELSE {DEFAULT_PASSTHROUGH_HEADERS[i] : i \in DOMAIN DEFAULT_PASSTHROUGH_HEADERS})

SecretConfigured == options.sharedSecret \notin {"undefined", ""}

SecretName == IF options.sharedSecretHeader = "undefined" THEN "x-shared-secret" ELSE options.sharedSecretHeader

\* the names createRequest and createClient set themselves
BinderNames ==
    {"host", "x-forwarded-proto", "content-type", "x-request-at"}
        \cup (IF SecretConfigured THEN {SecretName} ELSE {})

\* the bound collection and the headers of every call made upstream
HeaderCollections == {headers} \cup {fetchCalls[j].init.headers : j \in DOMAIN fetchCalls}

\* an inbound header that has at least one value, be it the empty string
HasValue(value) == value.kind = "string" \/ (value.kind = "array" /\ value.vals # <<>>)

\* an inbound header the loop does not skip as falsy or as having no values
NonEmpty(value) ==
    \/ value.kind = "string" /\ value.vals[1] # ""
    \/ value.kind = "array" /\ value.vals # <<>>

C30_TrustedHeadersNotInbound ==
    bound =>
        \A h \in HeaderCollections :
            /\ ValuesUnder(h, "host") = <<inbound.hostname>>
            /\ ValuesUnder(h, "x-forwarded-proto") = <<IF inbound.protocol = "https" THEN "https" ELSE "http">>
            /\ ~options.passthroughHeaders.def =>
                   ValuesUnder(h, SecretName) \in {<<>>, <<options.sharedSecret>>}

C30_Witness ==
    /\ bound
    /\ inbound = InboundPlain
    /\ options.passthroughHeaders = Maybe(TRUE, <<"X-Custom-Header", "host", "x-forwarded-proto">>)
    /\ \E i \in DOMAIN inbound.headers :
          inbound.headers[i] = <<"x-forwarded-proto", HeaderValue("string", <<"https">>)>>
    /\ Len(fetchCalls) = 1
    /\ ValuesUnder(fetchCalls[1].init.headers, "x-forwarded-proto") = <<"http">>
    /\ ValuesUnder(fetchCalls[1].init.headers, "host") = <<"example.com">>

----------------------------------------------------------------------------
(* requestMiddleware(options): inbound requests, their sends and their relays *)

\* a call the handler makes, with the arguments that are options
Call(fn, args) == [fn |-> fn, args |-> args]

\* `const { skipCookies, ...clientOptions } = options ?? {}`
clientOptions(o) == [k \in DOMAIN o \ {"skipCookies"} |-> o[k]]

\* mutant: every inbound request is handed the same Headers collection
newHeaders_Shared(h) == 1

\* `const headers = new Headers()`: a collection no one holds yet
newHeaders(h) == Len(h) + 1

\* the function createRequest returns: the client's endpoint, its Headers
\* collection and the skipCookies of its response middleware
RequestFunc(endpoint, hdrs, skip) == [uri |-> endpoint, headers |-> hdrs, skipCookies |-> skip]

\* no call to fetch
NoFetchCall == [n |-> 0, url |-> "", init |-> GraphQLRequestInit("", FALSE, "undefined", <<>>)]

\* an inbound request after the handler: req.request, the calls the handler
\* made, the calls to fetch it awaits (n is the number of the send), the
\* call its response middleware was last invoked for, the lines that
\* invocation logged, and its outbound response, which the application
\* has not sent yet
Bound(req, func, made) ==
    [inbound |-> req, request |-> func, calls |-> made,
     sends |-> 0, awaited |-> {}, relays |-> 0, relayed |-> NoFetchCall, logged |-> <<>>,
     headersSent |-> FALSE, outServerTiming |-> <<>>, outCookies |-> <<>>]

\* mutant: the options are handed to createRequest whole
RequestMiddleware_WholeOptions(req) ==
    /\ Len(reqs) < MaxRequests
    /\ LET skip == middlewareOptions.skipCookies
           opts == middlewareOptions
           hdrs == newHeaders(heap)
           func == RequestFunc(IF opts.endpoint = "undefined" THEN DEFAULT_ENDPOINT ELSE opts.endpoint,
                               hdrs, skip = "true")
       IN  /\ heap' = [i \in 1..(IF hdrs > Len(heap) THEN hdrs ELSE Len(heap)) |->
                          IF i = hdrs
                          THEN headersSet(createRequestHeaders(req, opts), "content-type", JStr("application/json"))
                          ELSE heap[i]]
           /\ reqs' = Append(reqs, Bound(req, func, <<Call("createResponseMiddleware", <<skip>>),
                                                      Call("createRequest", <<opts>>),
                                                      Call("next", <<>>)>>))
    /\ UNCHANGED middlewareOptions
    /\ UNCHANGED <<pqVars, relayVars, clientVars, hashVars>>

\* the handler requestMiddleware returns, called with an inbound request
RequestMiddleware(req) ==
    /\ Len(reqs) < MaxRequests
    /\ LET skip == middlewareOptions.skipCookies
           opts == clientOptions(middlewareOptions)
           hdrs == newHeaders(heap)
           func == RequestFunc(IF opts.endpoint = "undefined" THEN DEFAULT_ENDPOINT ELSE opts.endpoint,
                               hdrs, skip = "true")
       IN  /\ heap' = [i \in 1..(IF hdrs > Len(heap) THEN hdrs ELSE Len(heap)) |->
                          IF i = hdrs
                          THEN headersSet(createRequestHeaders(req, opts), "content-type", JStr("application/json"))
                          ELSE heap[i]]
           /\ reqs' = Append(reqs, Bound(req, func, <<Call("createResponseMiddleware", <<skip>>),
                                                      Call("createRequest", <<opts>>),
                                                      Call("next", <<>>)>>))
    /\ UNCHANGED middlewareOptions
    /\ UNCHANGED <<pqVars, relayVars, clientVars, hashVars>>

\* the calls to fetch the server awaits
Inflight == {c \in (DOMAIN reqs) \X (1..MaxSends) : \E a \in reqs[c[1]].awaited : a.n = c[2]}

\* the sends of the inbound requests rs together
RECURSIVE ServerSends(_)
ServerSends(rs) == IF rs = <<>> THEN 0 ELSE Head(rs).sends + ServerSends(Tail(rs))

\* req.request(query) of inbound request r, up to the call of fetch
Send(r, query) ==
    /\ r \in DOMAIN reqs
    /\ reqs[r].sends < MaxSends
    /\ ServerSends(reqs) < MaxServerSends
    /\ Cardinality(Inflight) < MaxInflight
    /\ LET func == reqs[r].request
       IN  /\ heap' = [heap EXCEPT ![func.headers] = requestHeaders(heap[func.headers], now)]
           /\ reqs' = [reqs EXCEPT
                           ![r].sends = @ + 1,
                           ![r].awaited = @ \cup
                               {[n |-> reqs[r].sends + 1, url |-> c.url, init |-> c.init] :
                                   c \in LET made == clientFetch(func.uri,
                                                        GraphQLRequestInit(query, FALSE, "undefined",
                                                                           heap'[func.headers]))
                                         IN  {made[k] : k \in DOMAIN made}}]
    /\ UNCHANGED middlewareOptions
    /\ UNCHANGED <<pqVars, relayVars, clientVars, hashVars>>

\* the x-request-at value of a Headers collection, or undefined
requestAtOf(h) ==
    IF Has(h, "x-request-at") THEN Maybe(TRUE, Get(h, "x-request-at").n) ELSE Undefined

\* the answers the upstream may give to a call: with or without a request
\* id, server-timing and cookies, and with the request's x-request-at
\* sent back or not
UpstreamResponses(call) ==
    {[status |-> 200, operationName |-> "undefined", headers |-> UpstreamHeaders(x[1], at, x[2], x[3])] :
        at \in {Undefined, requestAtOf(call.init.headers)},
        x \in {<<"req-1", "api;dur=20", <<CookieDefs_at>> >>}}

\* call c of inbound request r is answered and the response middleware of
\* r is invoked with the answer
Respond(r, c, resp) ==
    /\ r \in DOMAIN reqs
    /\ c \in reqs[r].awaited
    /\ LET info == LogLine("info", "API request returned", NoError,
                           LogFields(resp.headers.requestId, resp.operationName, resp.status,
                                     reqDuration(now, resp.headers.requestAt)))
           sent == reqs[r].headersSent
       IN  reqs' = [reqs EXCEPT
                       ![r].awaited = @ \ {c},
                       ![r].relays = @ + 1,
                       ![r].relayed = c,
                       ![r].logged = IF sent
                                     THEN <<info, LogLine("warn", "Response headers already sent", NoError, NoFields)>>
                                     ELSE <<info>>,
                       ![r].outServerTiming = IF sent THEN @
                                              ELSE appendServerTiming(@, resp.headers.serverTiming),
                       ![r].outCookies = IF sent THEN @
                                         ELSE @ \o cookiesToSet(reqs[r].request.skipCookies,
                                                                resp.headers.setCookie)]
    /\ UNCHANGED <<heap, middlewareOptions>>
    /\ UNCHANGED <<pqVars, relayVars, clientVars, hashVars>>

\* the options requestMiddleware may be given
MiddlewareOptionsGiven ==
    {RequestMiddlewareOptions("undefined", NoOptions),
     RequestMiddlewareOptions("true", GraphQLClientOptions("http://api.internal/graphql", "s3cret", "undefined",
                                                           Maybe(TRUE, <<"x-custom-header">>), "false"))}

InitServer ==
    /\ PQInit
    /\ RelayFresh
    /\ now = MaxClock - 1
    /\ headers = <<>>
    /\ fetchCalls = <<>>
    /\ pending = FALSE
    /\ sends = 0
    /\ bound = FALSE
    /\ uri = ""
    /\ inbound = NoInbound
    /\ options = NoOptions
    /\ HashFresh
    /\ reqs = <<>>
    /\ heap = <<>>
    /\ middlewareOptions \in MiddlewareOptionsGiven

\* the inbound requests in the order they reach the server
InboundSequence(n) == IF n % 2 = 1 THEN InboundSecure ELSE InboundPlain

ServerNext ==
    \/ RequestMiddleware(InboundSequence(Len(reqs) + 1))
    \/ \E r \in 1..MaxRequests : Send(r, "q1")
    \/ \E r \in DOMAIN reqs : \E c \in reqs[r].awaited : \E resp \in UpstreamResponses(c) : Respond(r, c, resp)
    \/ Tick

SpecServer == InitServer /\ [][ServerNext]_vars

----------------------------------------------------------------------------
(* Claims about the inbound requests of a server *)

\* the Headers collection bound to inbound request r
OutboundHeaders(r) == heap[reqs[r].request.headers]

\* the outbound response of inbound request r
OutboundResponse(r) == <<reqs[r].headersSent, reqs[r].outServerTiming, reqs[r].outCookies>>

\* a step in which inbound request r sends, or in which its response
\* middleware is invoked
SendsIn(r) == reqs'[r].sends = reqs[r].sends + 1
RelaysIn(r) == reqs'[r].relays = reqs[r].relays + 1

\* C22 as stated: the duration the response middleware logs for a call is
\* the time of the invocation minus the x-request-at value the call's
\* request headers were given before the send, and minus 0 only if these
\* hold none.
C22_DurationSinceRequestAt ==
    [][\A r \in DOMAIN reqs :
          RelaysIn(r) =>
              LET sentAt == requestAtOf(reqs'[r].relayed.init.headers)
              IN  reqs'[r].logged[1].fields.gqlDuration = now - (IF sentAt.def THEN sentAt.v ELSE 0)]_vars

\* C25: two inbound requests never hold the same Headers collection, and a
\* step in which one of them sends or has its response middleware invoked
\* leaves the other's outbound headers (x-request-at and the shared secret
\* among them), its outbound response, its log lines and its calls as they
\* were, however the sends and answers of the two interleave.
C25_RequestsApart ==
    /\ [](\A r, o \in DOMAIN reqs : r # o => reqs[r].request.headers # reqs[o].request.headers)
    /\ [][\A r, o \in DOMAIN reqs :
            (r # o /\ (SendsIn(r) \/ RelaysIn(r))) =>
                /\ OutboundHeaders(o)' = OutboundHeaders(o)
                /\ OutboundResponse(o)' = OutboundResponse(o)
                /\ reqs'[o] = reqs[o]]_vars

\* both requests await a call, the first after a relayed one that set a
\* cookie on its response only, and their x-request-at values differ
C25_Witness ==
    /\ Len(reqs) = 2
    /\ reqs[1].awaited # {}
    /\ reqs[2].awaited # {}
    /\ reqs[1].relays = 1
    /\ reqs[1].outCookies # <<>>
    /\ reqs[2].outCookies = <<>>
    /\ requestAtOf(OutboundHeaders(1)) # requestAtOf(OutboundHeaders(2))
    /\ ValuesUnder(OutboundHeaders(1), "host") = <<"example.com">>
    /\ Has(OutboundHeaders(1), "cookie")
    /\ ~Has(OutboundHeaders(2), "cookie")

\* C26: the handler of every inbound request has called
\* createResponseMiddleware first, with skipCookies alone of the options,
\* then createRequest with the options other than skipCookies, each as it
\* was given, and then next, once and without arguments; and req.request
\* is the function createRequest returned, bound to a Headers collection
\* and to the response middleware made with that skipCookies.
C26_MiddlewareCalls ==
    \A r \in DOMAIN reqs :
        LET made == reqs[r].calls
        IN  /\ Len(made) = 3
            /\ made[1].fn = "createResponseMiddleware"
            /\ made[1].args = <<middlewareOptions.skipCookies>>
            /\ made[2].fn = "createRequest"
            /\ Len(made[2].args) = 1
            /\ DOMAIN made[2].args[1] = DOMAIN middlewareOptions \ {"skipCookies"}
            /\ \A k \in DOMAIN made[2].args[1] : made[2].args[1][k] = middlewareOptions[k]
            /\ made[3].fn = "next"
            /\ made[3].args = <<>>
            /\ reqs[r].request.headers \in DOMAIN heap
            /\ reqs[r].request.skipCookies = (middlewareOptions.skipCookies = "true")
            /\ reqs[r].request.uri = IF middlewareOptions.endpoint = "undefined"
                                     THEN DEFAULT_ENDPOINT
                                     ELSE middlewareOptions.endpoint

C26_Witness ==
    /\ Len(reqs) = 2
    /\ middlewareOptions.skipCookies = "true"
    /\ reqs[2].calls[1].args = <<"true">>
    /\ reqs[2].calls[2].args[1].sharedSecret = "s3cret"
    /\ reqs[2].request.uri = "http://api.internal/graphql"
    /\ reqs[2].relays = 1
    /\ reqs[2].outCookies = <<>>

----------------------------------------------------------------------------
(* hashCache under overlapping calls *)

InitHash == PQInit /\ RelayFresh /\ ClientFresh /\ HashFresh /\ ServerFresh

\* the query texts hashCache is called with: one more than the cache holds
\* when it holds one more than `CacheMax`
HashQueries == Queries \cup {"q3"}

HashNext ==
    \/ \E q \in HashQueries : HashCache(q)
    \/ \E i \in 1..MaxHashCalls : HashCacheResumes(i)

SpecHash == InitHash /\ [][HashNext]_vars

\* C23: whatever calls of hashCache came before or are still awaiting their
\* digest, and whatever the cache has evicted, every call that has returned
\* returned the SHA-256 digest of its own query, so two calls with the same
\* query returned the same digest; the cache holds no more entries than its
\* capacity, one entry per query at most, and each entry's value is the
\* digest of the entry's key.
C23_HashCacheReturnsDigest ==
    /\ \A i \in DOMAIN hashCalls :
          hashCalls[i].at = "returned" => hashCalls[i].hash = sha256(hashCalls[i].query)
    /\ \A i, j \in DOMAIN hashCalls :
          (hashCalls[i].at = "returned" /\ hashCalls[j].at = "returned"
              /\ hashCalls[i].query = hashCalls[j].query) => hashCalls[i].hash = hashCalls[j].hash
    /\ Len(cache) <= CacheMax
    /\ \A i, j \in DOMAIN cache : cache[i][1] = cache[j][1] => i = j
    /\ \A i \in DOMAIN cache : cache[i][2] = sha256(cache[i][1])

\* two overlapping calls for one query and a call for another have set
\* their digests, a third query's digest has evicted the least recently
\* used entry, and a later call was answered from the cache
C23_Witness ==
    /\ Len(hashCalls) = MaxHashCalls
    /\ Len(cache) = CacheMax
    /\ \E i \in DOMAIN hashCalls :
          /\ hashCalls[i].at = "returned"
          /\ ~hashCalls[i].cached
          /\ cacheGet(cache, hashCalls[i].query) = "undefined"
    /\ \E i \in DOMAIN hashCalls :
          /\ hashCalls[i].cached
          /\ hashCalls[i].hash = sha256(hashCalls[i].query)

====
